---------------------------- MODULE Spec2Model ----------------------------
(***************************************************************************)
(* SPARK career navigator (src/main.py): the intent router                 *)
(* execute_general_query, the skill-gap engine analyze_skill_gap and the   *)
(* match-percentage queries over the profile store and the job store.      *)
(*                                                                         *)
(* Specifications sharing the module:                                        *)
(*   Spec        - one utterance through execute_general_query               *)
(*   SpecGap     - analyze_skill_gap applied to bounded inputs               *)
(*   SpecMatch   - CRUD on both stores and the two matching queries          *)
(*   SpecResolve - get_user_profile over stored names                        *)
(*   SpecCrud    - the six CRUD operations with failing store steps          *)
(*   SpecPeople  - register_new_user and find_people                         *)
(*   SpecHandlers - the query handlers with failing stores and oracle      *)
(***************************************************************************)
EXTENDS Integers, Sequences, FiniteSets, Bags, TLC

VARIABLES
    \* ---- execute_general_query (one utterance) ----
    pc,             \* position inside execute_general_query
    json_text,      \* response.text after strip / fence removal (token sequence)
    data,           \* json.loads(json_text)
    analysis_list,  \* [data] if isinstance(data, dict) else data
    idx,            \* number of loop iterations of "for analysis in analysis_list" begun
    final_results,  \* the list being collected
    returned,       \* the value execute_general_query returned (once pc = "done")
    llmCalls,       \* number of self.llm.generate_content calls made so far
    taskLog,        \* per loop iteration: what the iteration did (observation only)
    \* ---- analyze_skill_gap (one call) ----
    gapPc,          \* "call" before the call, "done" after it
    current_skills, \* argument: list of skill names
    required_skills,\* argument: list of (skill name, importance) pairs
    mand_gap,       \* first returned list
    pref_gap,       \* second returned list
    \* ---- the profile store (PostgreSQL) ----
    Profiles,               \* ProfileID -> row
    Profile_Skills_Mapping, \* ProfileID -> set of SkillID; the pair is the primary key
    PgSkills,               \* Skills table: SkillID -> SkillName
    nextProfileID,          \* the SERIAL sequence of Profiles.ProfileID
    \* ---- the job store (MySQL) ----
    Jobs,                   \* JobID -> row
    Job_Skills_Mapping,     \* JobID -> bag of (SkillID, Importance) rows (MapID left out)
    MySkills,               \* Skills table: SkillID -> SkillName
    nextJobID,              \* AUTO_INCREMENT of Jobs.JobID
    \* ---- the caller of the store operations ----
    lastCall                \* the last operation: its name, arguments and return value

routerVars == <<pc, json_text, data, analysis_list, idx, final_results,
                returned, llmCalls, taskLog>>

gapVars == <<gapPc, current_skills, required_skills, mand_gap, pref_gap>>

storeVars == <<Profiles, Profile_Skills_Mapping, PgSkills, nextProfileID,
               Jobs, Job_Skills_Mapping, MySkills, nextJobID, lastCall>>

vars == <<routerVars, gapVars, storeVars>>

(***************************************************************************)
(* Small helpers                                                           *)
(***************************************************************************)
None == "None"

Range(s) == {s[i] : i \in DOMAIN s}

\* all sequences over S of length 0..n
SeqsUpTo(S, n) == UNION {[1..k -> S] : k \in 0..n}


(***************************************************************************)
(* Bounds                                                                  *)
(***************************************************************************)
\* longest task list the oracle returns in the model
MaxTasks == 2

(***************************************************************************)
(* The oracle's text and json.loads                                        *)
(*                                                                         *)
(* A text is a sequence of tokens: a code fence ("```"), the word "json",  *)
(* white space, prose, or one complete JSON value.                         *)
(***************************************************************************)
FENCE == [tok |-> "FENCE"]
JSONWORD == [tok |-> "json"]
WS == [tok |-> "WS"]
PROSE == [tok |-> "PROSE"]
JsonTok(v) == [tok |-> "JSON", val |-> v]

\* JSON values: an object with (or without) an "intent" key, a list, a string
\* of some length, or a scalar (number, true, false, null)
JDict(intent) == [type |-> "dict", intent |-> intent]
JList(items) == [type |-> "list", items |-> items]
JStr(n) == [type |-> "str", len |-> n]
JScalar == [type |-> "scalar"]
ParseError == [type |-> "JSONDecodeError"]
\* a local not yet assigned
Unset == [type |-> "unset"]

\* the ten intents execute_general_query dispatches on
HandledIntents ==
    {"CAREER_PATH", "FIND_JOBS", "ELIGIBLE_JOBS", "CANDIDATE_SEARCH", "FIND_PEOPLE",
     "ANALYTICS", "PROFILE_AGGREGATION", "SKILL_LOOKUP", "USER_SKILL_LOOKUP",
     "SKILL_FORECAST"}

\* tags the oracle may also produce: the spec's UNKNOWN, a tag in the wrong
\* letter case, and no "intent" key at all (analysis.get returns None)
OtherIntents == {"UNKNOWN", "find_jobs", None}

\* what a JSON list of the oracle may hold: task objects, or a non-object
ListElements == {JDict(t) : t \in HandledIntents \cup OtherIntents} \cup {JScalar}

OracleBodies ==
    {JDict(t) : t \in HandledIntents \cup OtherIntents}
        \cup {JList(l) : l \in SeqsUpTo(ListElements, MaxTasks)}
        \cup {JStr(0), JStr(1), JScalar}

\* the texts the completion service may return
OracleTexts ==
    {<<JsonTok(b)>> : b \in OracleBodies}
        \cup {<<FENCE, JSONWORD, WS, JsonTok(b), WS, FENCE>> : b \in OracleBodies}
        \cup {<<WS, FENCE, WS, JsonTok(b), WS, FENCE, WS>> : b \in OracleBodies}
        \cup {<<PROSE, WS, JsonTok(JList(<<JDict("FIND_JOBS")>>))>>,
              <<JSONWORD, WS, JsonTok(JList(<<>>))>>,
              <<PROSE>>, <<>>}

\* str.strip(): drop the white space at both ends
RECURSIVE LStrip(_)
LStrip(t) == IF t # <<>> /\ Head(t) = WS THEN LStrip(Tail(t)) ELSE t

RECURSIVE RStrip(_)
RStrip(t) ==
    IF t # <<>> /\ t[Len(t)] = WS THEN RStrip(SubSeq(t, 1, Len(t) - 1)) ELSE t

Strip(t) == RStrip(LStrip(t))

\* str.replace("```json", ""): drop every fence that the word json follows,
\* together with that word
RECURSIVE RemoveJsonFences(_)
RemoveJsonFences(t) ==
    IF t = <<>> THEN <<>>
    ELSE IF Len(t) >= 2 /\ t[1] = FENCE /\ t[2] = JSONWORD
         THEN RemoveJsonFences(SubSeq(t, 3, Len(t)))
         ELSE <<Head(t)>> \o RemoveJsonFences(Tail(t))

\* str.replace("```", "")
RemoveFences(t) == SelectSeq(t, LAMBDA x : x # FENCE)

\* response.text.strip().replace("```json", "").replace("```", "").strip()
FenceStrip(t) == Strip(RemoveFences(RemoveJsonFences(Strip(t))))

\* json.loads: white space around the one value is accepted; anything else
\* (no value, prose, a second token) raises JSONDecodeError
JsonLoads(t) ==
    LET core == Strip(t) IN
    IF Len(core) = 1 /\ core[1].tok = "JSON" THEN core[1].val ELSE ParseError

\* analysis_list = [data] if isinstance(data, dict) else data
WrapData(d) == IF d.type = "dict" THEN JList(<<d>>) ELSE d

\* "for analysis in analysis_list": a list yields its items, a string its
\* characters (each a one-character string), a scalar raises TypeError
Iterable(v) == v.type \in {"list", "str"}

Items(v) ==
    IF v.type = "list" THEN v.items
    ELSE IF v.type = "str" THEN [i \in 1..v.len |-> JStr(1)]
    ELSE <<>>


(***************************************************************************)
(* The handlers, as execute_general_query sees them: whether the call      *)
(* returns a truthy value, returns a falsy one or raises, whether it       *)
(* called the completion service and whether it went to a store.           *)
(***************************************************************************)
Outcome(ret, llm, store) == [ret |-> ret, llm |-> llm, store |-> store]

\* the validation message, returned before any I/O
Refused == Outcome("truthy", 0, FALSE)
\* a message or a (message, table) pair built from store reads
Answered == Outcome("truthy", 0, TRUE)
\* a text of the completion service, or the fallback for its failure
Narrated == Outcome("truthy", 1, TRUE)
\* the completion service returned the empty text, and the handler returns it
EmptyText == Outcome("falsy", 1, TRUE)
\* get_user_profile returned ("UNIQUE_MATCH", None): the row was deleted between
\* its two reads, and the handler subscripts or unpacks None
RaisedOnRow == Outcome("raise", 0, TRUE)

HandlerOutcomes(h) ==
    CASE h = "run_dynamic_query" -> {Refused, Answered, Narrated, EmptyText, RaisedOnRow}
      [] h = "find_jobs_by_criteria" -> {Refused, Answered}
      [] h = "find_eligible_jobs_for_user" -> {Refused, Answered, RaisedOnRow}
      [] h = "find_eligible_candidates_for_job" -> {Refused, Answered, Narrated}
      [] h = "find_people" -> {Refused, Answered}
      [] h = "run_analytics_query" -> {Refused, Answered}
      [] h = "aggregate_profile_query" -> {Refused, Answered}
      [] h = "get_skills_for_job" -> {Refused, Answered}
      [] h = "get_skills_for_user" -> {Refused, Answered, RaisedOnRow}
      [] h = "run_skill_forecast" -> {Refused, Answered, Narrated, EmptyText}

\* (mutant) the tag is compared without regard to letter case
DispatchAnyCase(intent) ==
    IF intent \in {"FIND_JOBS", "find_jobs"} THEN "find_jobs_by_criteria"
    ELSE IF intent = "CAREER_PATH" THEN "run_dynamic_query"
    ELSE IF intent = "SKILL_FORECAST" THEN "run_skill_forecast"
    ELSE "none"

\* the if / elif chain of execute_general_query; "none" is its else branch
Dispatch(intent) ==
    IF intent = "CAREER_PATH" THEN "run_dynamic_query"
    ELSE IF intent = "FIND_JOBS" THEN "find_jobs_by_criteria"
    ELSE IF intent = "ELIGIBLE_JOBS" THEN "find_eligible_jobs_for_user"
    ELSE IF intent = "CANDIDATE_SEARCH" THEN "find_eligible_candidates_for_job"
    ELSE IF intent = "FIND_PEOPLE" THEN "find_people"
    ELSE IF intent = "ANALYTICS" THEN "run_analytics_query"
    ELSE IF intent = "PROFILE_AGGREGATION" THEN "aggregate_profile_query"
    ELSE IF intent = "SKILL_LOOKUP" THEN "get_skills_for_job"
    ELSE IF intent = "USER_SKILL_LOOKUP" THEN "get_skills_for_user"
    ELSE IF intent = "SKILL_FORECAST" THEN "run_skill_forecast"
    ELSE "none"

\* Result values. The field task records which loop iteration produced the
\* value (0: none); the program's value is the text alone.
CannedText ==
    "Sorry, I can only answer questions about career paths, job eligibility, job listings, skills, analytics, or corporate skill forecasts."
ErrorText == "Sorry, I encountered an error."

Result(i, text) == [task |-> i, text |-> text]
NoResult == Result(0, None)

\* the value a handler call with outcome o returns in iteration i
HandlerResult(i, h, o) == Result(i, IF o.ret = "truthy" THEN h ELSE "")

\* "if result:" -- None and the empty text are falsy
Truthy(r) == r.text # None /\ r.text # ""

\* (mutant) the new value is put in front of the list
CollectResultInFront(results, r) == IF Truthy(r) THEN <<r>> \o results ELSE results

\* if result: final_results.append(result)
CollectResult(results, r) == IF Truthy(r) THEN Append(results, r) ELSE results

LogEntry(i, h, ret, r, llm, store) ==
    [task |-> i, handler |-> h, ret |-> ret, result |-> r, llm |-> llm, store |-> store]

(***************************************************************************)
(* execute_general_query                                                   *)
(***************************************************************************)
InitRouter ==
    /\ pc = "start"
    /\ json_text = <<>>
    /\ data = Unset
    /\ analysis_list = Unset
    /\ idx = 0
    /\ final_results = <<>>
    /\ returned = <<>>
    /\ llmCalls = 0
    /\ taskLog = <<>>

\* response = self.llm.generate_content(intent_prompt); json_text = ...strip()
CallOracle ==
    /\ pc = "start"
    /\ llmCalls' = llmCalls + 1
    /\ \E text \in OracleTexts :
          /\ json_text' = FenceStrip(text)
          /\ pc' = "parse"
    /\ UNCHANGED <<data, analysis_list, idx, final_results, returned, taskLog>>
    /\ UNCHANGED <<gapVars, storeVars>>

\* the completion service raises (failure, timeout, no text in the response)
OracleFails ==
    /\ pc = "start"
    /\ llmCalls' = llmCalls + 1
    /\ pc' = "except"
    /\ UNCHANGED <<json_text, data, analysis_list, idx, final_results, returned, taskLog>>
    /\ UNCHANGED <<gapVars, storeVars>>

\* data = json.loads(json_text); analysis_list = ...; final_results = []
ParseJson ==
    /\ pc = "parse"
    /\ LET d == JsonLoads(json_text) IN
       IF d = ParseError
       THEN /\ pc' = "except"
            /\ UNCHANGED <<data, analysis_list, final_results>>
       ELSE /\ data' = d
            /\ analysis_list' = WrapData(d)
            /\ final_results' = <<>>
            /\ pc' = "loop"
    /\ UNCHANGED <<json_text, idx, returned, llmCalls, taskLog>>
    /\ UNCHANGED <<gapVars, storeVars>>

\* "for analysis in analysis_list" over a number, a boolean or null: TypeError
IterateFails ==
    /\ pc = "loop"
    /\ ~Iterable(analysis_list)
    /\ pc' = "except"
    /\ UNCHANGED <<json_text, data, analysis_list, idx, final_results, returned,
                   llmCalls, taskLog>>
    /\ UNCHANGED <<gapVars, storeVars>>

\* the item the loop takes next
NextTask(i) == i + 1

HasNext == Iterable(analysis_list) /\ idx < Len(Items(analysis_list))

\* analysis.get("intent") on a value that is no object: AttributeError
MalformedTask ==
    /\ pc = "loop" /\ HasNext
    /\ LET i == NextTask(idx) IN
       /\ Items(analysis_list)[i].type # "dict"
       /\ taskLog' = Append(taskLog, LogEntry(i, "none", "raise", NoResult, 0, FALSE))
    /\ idx' = idx + 1
    /\ pc' = "except"
    /\ UNCHANGED <<json_text, data, analysis_list, final_results, returned, llmCalls>>
    /\ UNCHANGED <<gapVars, storeVars>>

\* the else branch: the canned message, no handler
CannedTask ==
    /\ pc = "loop" /\ HasNext
    /\ LET i == NextTask(idx)
           analysis == Items(analysis_list)[i]
       IN /\ analysis.type = "dict"
          /\ Dispatch(analysis.intent) = "none"
          /\ LET result == Result(i, CannedText) IN
             /\ final_results' = CollectResult(final_results, result)
             /\ taskLog' = Append(taskLog, LogEntry(i, "none", "value", result, 0, FALSE))
    /\ idx' = idx + 1
    /\ UNCHANGED <<pc, json_text, data, analysis_list, returned, llmCalls>>
    /\ UNCHANGED <<gapVars, storeVars>>

\* one of the ten branches: the handler runs to its end, then "if result:"
HandlerTask ==
    /\ pc = "loop" /\ HasNext
    /\ LET i == NextTask(idx)
           analysis == Items(analysis_list)[i]
       IN /\ analysis.type = "dict"
          /\ Dispatch(analysis.intent) # "none"
          /\ LET h == Dispatch(analysis.intent) IN
             \E o \in HandlerOutcomes(h) :
                /\ llmCalls' = llmCalls + o.llm
                /\ IF o.ret = "raise"
                   THEN /\ taskLog' = Append(taskLog,
                                         LogEntry(i, h, "raise", NoResult, o.llm, o.store))
                        /\ pc' = "except"
                        /\ UNCHANGED final_results
                   ELSE LET result == HandlerResult(i, h, o) IN
                        /\ taskLog' = Append(taskLog,
                                         LogEntry(i, h, "value", result, o.llm, o.store))
                        /\ final_results' = CollectResult(final_results, result)
                        /\ UNCHANGED pc
    /\ idx' = idx + 1
    /\ UNCHANGED <<json_text, data, analysis_list, returned>>
    /\ UNCHANGED <<gapVars, storeVars>>

\* return final_results
ReturnResults ==
    /\ pc = "loop"
    /\ Iterable(analysis_list) /\ ~HasNext
    /\ returned' = final_results
    /\ pc' = "done"
    /\ UNCHANGED <<json_text, data, analysis_list, idx, final_results, llmCalls, taskLog>>
    /\ UNCHANGED <<gapVars, storeVars>>

\* (mutant) the utterance is sent to the oracle once more before giving up
HandleExceptionRetry ==
    /\ pc = "except"
    /\ IF llmCalls < 2
       THEN pc' = "start" /\ UNCHANGED returned
       ELSE returned' = <<Result(0, ErrorText)>> /\ pc' = "done"
    /\ UNCHANGED <<json_text, data, analysis_list, idx, final_results, llmCalls, taskLog>>
    /\ UNCHANGED <<gapVars, storeVars>>

\* except Exception: return ["Sorry, I encountered an error."]
HandleException ==
    /\ pc = "except"
    /\ returned' = <<Result(0, ErrorText)>>
    /\ pc' = "done"
    /\ UNCHANGED <<json_text, data, analysis_list, idx, final_results, llmCalls, taskLog>>
    /\ UNCHANGED <<gapVars, storeVars>>

\* analyze_skill_gap is not being called
GapIdle ==
    /\ gapPc = "idle"
    /\ current_skills = <<>>
    /\ required_skills = <<>>
    /\ mand_gap = <<>>
    /\ pref_gap = <<>>

\* the stores are not touched
StoreIdle ==
    /\ Profiles = <<>>
    /\ Profile_Skills_Mapping = <<>>
    /\ PgSkills = <<>>
    /\ nextProfileID = 1
    /\ Jobs = <<>>
    /\ Job_Skills_Mapping = <<>>
    /\ MySkills = <<>>
    /\ nextJobID = 1
    /\ lastCall = [op |-> "none"]

Init == InitRouter /\ GapIdle /\ StoreIdle

Next ==
    \/ CallOracle
    \/ OracleFails
    \/ ParseJson
    \/ IterateFails
    \/ MalformedTask
    \/ CannedTask
    \/ HandlerTask
    \/ ReturnResults
    \/ HandleException

Spec == Init /\ [][Next]_vars


(***************************************************************************)
(* Claims about execute_general_query (checked under Spec)                 *)
(***************************************************************************)
\* the tasks of the utterance, once the oracle's output has parsed
ParsedTasks == IF Iterable(analysis_list) THEN Items(analysis_list) ELSE <<>>

\* the truthy values the iterations logged in l produced, in iteration order
RECURSIVE TruthyResults(_)
TruthyResults(l) ==
    IF l = <<>> THEN <<>>
    ELSE IF l[1].ret = "value" /\ Truthy(l[1].result)
         THEN <<l[1].result>> \o TruthyResults(Tail(l))
         ELSE TruthyResults(Tail(l))

IsHandlerValue(r) == r.task > 0

\* C1: the tasks are handled one after another in decomposition order (the
\* k-th iteration handles the k-th task, and as many iterations have run as
\* the loop has begun), and the collected and the returned results keep that
\* order: of two handler results in the list, the one of the earlier task
\* comes first.
C1_SequentialOrder ==
    /\ Len(taskLog) = idx
    /\ \A k \in DOMAIN taskLog : taskLog[k].task = k
    /\ \A l \in {final_results, returned} :
          \A a, b \in DOMAIN l :
             (a < b /\ IsHandlerValue(l[a]) /\ IsHandlerValue(l[b]))
                 => l[a].task < l[b].task

C1_Witness ==
    /\ pc = "done"
    /\ Len(returned) = 2
    /\ returned[1].task = 1 /\ returned[2].task = 2
    /\ taskLog[1].handler = "find_jobs_by_criteria"
    /\ taskLog[2].handler = "get_skills_for_user"

\* C2: fault isolation. When the utterance has been answered, every task
\* has been handled and every truthy value a sibling's handler returned is
\* in the returned list, whatever happened to the other tasks.
C2_FaultIsolation ==
    pc = "done" =>
        /\ \A k \in DOMAIN ParsedTasks :
              ParsedTasks[k].type = "dict" => k \in DOMAIN taskLog
        /\ \A k \in DOMAIN taskLog :
              (taskLog[k].ret = "value" /\ Truthy(taskLog[k].result))
                  => taskLog[k].result \in Range(returned)

\* C3: an output that does not parse after fence-stripping gives exactly the
\* one-element error list, no handler has run, and the oracle has been
\* called exactly once.
IsJsonDocument(t) == Len(t) = 1 /\ t[1].tok = "JSON"

C3_ParseFailure ==
    /\ pc \in {"start", "parse", "loop", "except", "done"}
    /\ (pc = "done" /\ ~IsJsonDocument(json_text)) =>
          /\ returned = <<Result(0, ErrorText)>>
          /\ taskLog = <<>>
          /\ llmCalls = 1

C3_Witness ==
    /\ pc = "done"
    /\ json_text = <<PROSE, WS, JsonTok(JList(<<JDict("FIND_JOBS")>>))>>
    /\ returned = <<Result(0, ErrorText)>>

\* C4: the router never loops over an empty task list and never returns an
\* empty list.
C4_NeverEmpty ==
    /\ (pc = "loop" /\ Iterable(analysis_list)) => Items(analysis_list) # <<>>
    /\ pc = "done" => returned # <<>>

\* C5: for an output that parsed to a task list, the returned list is exactly
\* the truthy handler values in task order, one iteration per task (so a
\* subsequence of the per-task results, no longer than the task list).
C5_CollectsAll ==
    (pc = "done" /\ data.type \in {"list", "dict"}) =>
        /\ Len(taskLog) = Len(ParsedTasks)
        /\ returned = TruthyResults(taskLog)
        /\ Len(returned) <= Len(ParsedTasks)

\* the handler the specification assigns to each of the ten tags
AssignedHandler ==
    [t \in HandledIntents |->
        CASE t = "CAREER_PATH" -> "run_dynamic_query"
          [] t = "FIND_JOBS" -> "find_jobs_by_criteria"
          [] t = "ELIGIBLE_JOBS" -> "find_eligible_jobs_for_user"
          [] t = "CANDIDATE_SEARCH" -> "find_eligible_candidates_for_job"
          [] t = "FIND_PEOPLE" -> "find_people"
          [] t = "ANALYTICS" -> "run_analytics_query"
          [] t = "PROFILE_AGGREGATION" -> "aggregate_profile_query"
          [] t = "SKILL_LOOKUP" -> "get_skills_for_job"
          [] t = "USER_SKILL_LOOKUP" -> "get_skills_for_user"
          [] t = "SKILL_FORECAST" -> "run_skill_forecast"]

\* C6: for every task object handled so far, a tag outside the ten gives the
\* canned message as that task's result with no handler, store or oracle
\* call, and one of the ten tags runs exactly the handler assigned to it; the
\* oracle calls made are the decomposition call and those of the handlers.
C6_Dispatch ==
    /\ \A k \in DOMAIN taskLog :
          LET analysis == ParsedTasks[k] IN
          analysis.type = "dict" =>
              IF analysis.intent \in HandledIntents
              THEN taskLog[k].handler = AssignedHandler[analysis.intent]
              ELSE /\ taskLog[k].handler = "none"
                   /\ taskLog[k].ret = "value"
                   /\ taskLog[k].result.text = CannedText
                   /\ taskLog[k].llm = 0
                   /\ ~taskLog[k].store
    /\ pc = "done" =>
          \A k \in DOMAIN returned :
             (IsHandlerValue(returned[k]) /\ returned[k].text = CannedText)
                 => ParsedTasks[returned[k].task].intent \notin HandledIntents

C6_Witness ==
    /\ pc = "done"
    /\ Len(taskLog) = 2
    /\ ParsedTasks[1] = JDict("UNKNOWN") /\ ParsedTasks[2] = JDict("SKILL_FORECAST")
    /\ returned = <<Result(1, CannedText), Result(2, "run_skill_forecast")>>
    /\ llmCalls = 2


(***************************************************************************)
(* Skill names are Python strings: sequences of code points, compared by   *)
(* code point, a proper prefix before the longer string.                   *)
(***************************************************************************)
Docker == <<68, 111, 99, 107, 101, 114>>
Go == <<71, 111>>
Java == <<74, 97, 118, 97>>
Python == <<80, 121, 116, 104, 111, 110>>
SQL == <<83, 81, 76>>

\* str.__lt__
RECURSIVE LexLess(_, _)
LexLess(a, b) ==
    IF b = <<>> THEN FALSE
    ELSE IF a = <<>> THEN TRUE
    ELSE IF Head(a) # Head(b) THEN Head(a) < Head(b)
    ELSE LexLess(Tail(a), Tail(b))

\* (mutant) the list is built largest name first
RECURSIVE SortedDescending(_)
SortedDescending(S) ==
    IF S = {} THEN <<>>
    ELSE LET m == CHOOSE x \in S : \A y \in S : x = y \/ LexLess(y, x)
         IN <<m>> \o SortedDescending(S \ {m})

\* sorted(list(S)) for a set S of strings
RECURSIVE Sorted(_)
Sorted(S) ==
    IF S = {} THEN <<>>
    ELSE LET m == CHOOSE x \in S : \A y \in S : x = y \/ LexLess(x, y)
         IN <<m>> \o Sorted(S \ {m})

(***************************************************************************)
(* analyze_skill_gap                                                       *)
(***************************************************************************)
\* the importance values of Job_Skills_Mapping.Importance
Importances == {"Mandatory", "Preferred"}

\* (mutant) the mandatory names are not taken out of the preferred gap
SkillGapKeepingMandatory(current_list, required_list) ==
    LET current == Range(current_list)
        req_unique == {s[1] : s \in Range(required_list)}
        mand == {s[1] : s \in {r \in Range(required_list) : r[2] = "Mandatory"}}
    IN <<Sorted(mand \ current), Sorted(req_unique \ current)>>

\* current = set(current_skills); req_unique = {s[0] ...}; mand = {s[0] ... if
\* s[1] == 'Mandatory'}; return sorted(mand - current), sorted((req_unique - mand) - current)
SkillGap(current_list, required_list) ==
    LET current == Range(current_list)
        req_unique == {s[1] : s \in Range(required_list)}
        mand == {s[1] : s \in {r \in Range(required_list) : r[2] = "Mandatory"}}
    IN <<Sorted(mand \ current), Sorted((req_unique \ mand) \ current)>>

\* longest current-skill list and longest required-skill list of the model
MaxCurrent == 2
MaxRequired == 3

\* the names the gap engine is called with
GapSkillNames == {Docker, Go, Python, SQL}

\* mand_gap, pref_gap = self.analyze_skill_gap(my_skills, req_skills)
analyze_skill_gap ==
    /\ gapPc = "call"
    /\ LET gaps == SkillGap(current_skills, required_skills) IN
       /\ mand_gap' = gaps[1]
       /\ pref_gap' = gaps[2]
    /\ gapPc' = "done"
    /\ UNCHANGED <<current_skills, required_skills>>
    /\ UNCHANGED <<routerVars, storeVars>>

InitGap ==
    /\ pc = "done"
    /\ json_text = <<>>
    /\ data = Unset
    /\ analysis_list = Unset
    /\ idx = 0
    /\ final_results = <<>>
    /\ returned = <<>>
    /\ llmCalls = 0
    /\ taskLog = <<>>
    /\ gapPc = "call"
    /\ current_skills \in SeqsUpTo(GapSkillNames, MaxCurrent)
    /\ required_skills \in SeqsUpTo(GapSkillNames \X Importances, MaxRequired)
    /\ mand_gap = <<>>
    /\ pref_gap = <<>>
    /\ Profiles = <<>>
    /\ Profile_Skills_Mapping = <<>>
    /\ PgSkills = <<>>
    /\ nextProfileID = 1
    /\ Jobs = <<>>
    /\ Job_Skills_Mapping = <<>>
    /\ MySkills = <<>>
    /\ nextJobID = 1
    /\ lastCall = [op |-> "none"]

NextGap == analyze_skill_gap

SpecGap == InitGap /\ [][NextGap]_vars

(***************************************************************************)
(* Claims about analyze_skill_gap (checked under SpecGap)                  *)
(***************************************************************************)
RequiredNames == {r[1] : r \in Range(required_skills)}

MandatoryNames == {required_skills[i][1] : i \in
                      {j \in DOMAIN required_skills : required_skills[j][2] = "Mandatory"}}

\* C7: the two gaps are disjoint, and together with the current skills they
\* cover every required skill name.
C7_GapPartition ==
    gapPc = "done" =>
        /\ Range(mand_gap) \cap Range(pref_gap) = {}
        /\ RequiredNames \subseteq
               (Range(mand_gap) \cup Range(pref_gap) \cup Range(current_skills))

\* a name required both as Mandatory and as Preferred, twice each way, and missing
C7_Witness ==
    /\ gapPc = "done"
    /\ required_skills = <<<<Go, "Preferred">>, <<Go, "Mandatory">>, <<Go, "Preferred">>>>
    /\ current_skills = <<Python, Python>>
    /\ mand_gap = <<Go>>
    /\ pref_gap = <<>>

StrictlyAscending(l) == \A i, j \in DOMAIN l : i < j => LexLess(l[i], l[j])

\* C8: both lists are in strictly ascending lexicographic order (so free of
\* duplicates); the first holds exactly the Mandatory names not among the
\* current skills, the second exactly the other required names not among
\* them; and the scenario of the specification gives [Docker] and [Go].
C8_GapLists ==
    gapPc = "done" =>
        /\ StrictlyAscending(mand_gap)
        /\ StrictlyAscending(pref_gap)
        /\ Range(mand_gap) = MandatoryNames \ Range(current_skills)
        /\ Range(pref_gap) = (RequiredNames \ MandatoryNames) \ Range(current_skills)
        /\ (/\ current_skills = <<Python, SQL>>
            /\ required_skills = <<<<Python, "Mandatory">>, <<Docker, "Mandatory">>,
                                   <<Go, "Preferred">>>>)
              => (mand_gap = <<Docker>> /\ pref_gap = <<Go>>)

\* two names missing in each list, given in descending order
C8_Witness ==
    /\ gapPc = "done"
    /\ current_skills = <<>>
    /\ required_skills = <<<<SQL, "Mandatory">>, <<Docker, "Mandatory">>, <<Python, "Preferred">>>>
    /\ mand_gap = <<Docker, SQL>>
    /\ pref_gap = <<Python>>

C8_Scenario ==
    /\ gapPc = "done"
    /\ current_skills = <<Python, SQL>>
    /\ required_skills = <<<<Python, "Mandatory">>, <<Docker, "Mandatory">>, <<Go, "Preferred">>>>


(***************************************************************************)
(* The two stores (src/db_setup.py) and the CRUD operations                *)
(***************************************************************************)
\* the Skills table both stores are created with: SkillID -> SkillName
SkillVocabulary == <<Python, Java, Go, SQL, Docker>>

\* (mutant) only the first name of the list is looked up
SkillIdsForFirst(vocab, skills) ==
    {id \in DOMAIN vocab : skills # <<>> /\ vocab[id] = Head(skills)}

\* SELECT SkillID FROM Skills WHERE SkillName IN (skills)
SkillIdsFor(vocab, skills) == {id \in DOMAIN vocab : vocab[id] \in Range(skills)}

\* (mutant) a name the vocabulary lacks gets the first id
SkillIdOfOrFirst(vocab, name) ==
    IF \E id \in DOMAIN vocab : vocab[id] = name
    THEN CHOOSE id \in DOMAIN vocab : vocab[id] = name
    ELSE 1

\* skill_id_map.get(skill_name): the id of the name, 0 for None
SkillIdOf(vocab, name) ==
    IF \E id \in DOMAIN vocab : vocab[id] = name
    THEN CHOOSE id \in DOMAIN vocab : vocab[id] = name
    ELSE 0

ProfileRow(id, name, headline, experience, company, location) ==
    [ProfileID |-> id, FullName |-> name, Headline |-> headline,
     YearsOfExperience |-> experience, CompanyName |-> company, Location |-> location]

JobRow(id, title, company, location) ==
    [JobID |-> id, JobTitle |-> title, CompanyName |-> company, Location |-> location]

\* a table keyed by id: the table with the rows of key k replaced by v, and
\* the table without the rows of key k
Put(table, k, v) == [x \in DOMAIN table \cup {k} |-> IF x = k THEN v ELSE table[x]]
Drop(table, k) == [x \in DOMAIN table \ {k} |-> table[x]]

ProfileIds == DOMAIN Profiles
JobIds == DOMAIN Jobs

\* the SkillIDs mapped to a profile, and the mapping rows of a job
SkillIdsOfProfile(profile_id) ==
    IF profile_id \in DOMAIN Profile_Skills_Mapping
    THEN Profile_Skills_Mapping[profile_id] ELSE {}

RowsOfJob(job_id) ==
    IF job_id \in DOMAIN Job_Skills_Mapping THEN Job_Skills_Mapping[job_id] ELSE EmptyBag

\* the rows add_job / update_job insert for the items of skills, in list order:
\* importance_map.get(skill_name, 'Preferred'), and no row for an unknown name
RECURSIVE JobSkillRows(_, _, _)
JobSkillRows(skills, importance_map, vocab) ==
    IF skills = <<>> THEN EmptyBag
    ELSE LET skill_name == Head(skills)
             skill_id == SkillIdOf(vocab, skill_name)
             importance == IF skill_name \in DOMAIN importance_map
                           THEN importance_map[skill_name] ELSE "Preferred"
             rest == JobSkillRows(Tail(skills), importance_map, vocab)
         IN IF skill_id # 0
            THEN SetToBag({[SkillID |-> skill_id, Importance |-> importance]}) (+) rest
            ELSE rest

\* the steps of a CRUD operation at which the store can fail: none of them, the
\* connect, the skill lookup, the last mapping insert, the commit
Failures == {"none", "connect", "lookup", "mapping", "commit"}

\* (mutant) an exception of the store leaves the function
ReturnOrRaise(op, id, args, failure) ==
    IF failure = "none"
    THEN [op |-> op, id |-> id, args |-> args, value |-> TRUE, failure |-> failure,
          again |-> FALSE]
    ELSE [op |-> op, id |-> id, args |-> args, exception |-> failure, failure |-> failure,
          again |-> FALSE]

\* return True at the end of the try block, and except Exception: return False.
\* again: the call repeats the successful call before it (same id, same arguments).
Return(op, id, args, failure) ==
    [op |-> op, id |-> id, args |-> args, value |-> failure = "none", failure |-> failure,
     again |-> /\ lastCall.op = op
               /\ lastCall.id = id
               /\ lastCall.args = args
               /\ lastCall.value]

\* (mutant) the statements run before the failure stay in the store
RollbackKeepingWrites(before, written) == written

\* a transaction that ends without commit: the table as it was before
Rollback(before, written) == before

\* the table after the transaction: as written when every step succeeded
Commit(failure, before, written) ==
    IF failure = "none" THEN written ELSE Rollback(before, written)

\* (mutant) the INSERTs without the DELETE before them
AddSkillIds(table, k, skill_ids) ==
    IF skill_ids = {} THEN table
    ELSE Put(table, k, (IF k \in DOMAIN table THEN table[k] ELSE {}) \cup skill_ids)

\* DELETE FROM Profile_Skills_Mapping WHERE ProfileID = k, then the INSERTs
SetSkillIds(table, k, skill_ids) ==
    IF skill_ids = {} THEN Drop(table, k) ELSE Put(table, k, skill_ids)

\* (mutant) the INSERTs without the DELETE before them
AddJobRows(table, k, rows) ==
    IF rows = EmptyBag THEN table
    ELSE Put(table, k, (IF k \in DOMAIN table THEN table[k] ELSE EmptyBag) (+) rows)

\* DELETE FROM Job_Skills_Mapping WHERE JobID = k, then the INSERTs
SetJobRows(table, k, rows) ==
    IF rows = EmptyBag THEN Drop(table, k) ELSE Put(table, k, rows)

\* (mutant) deleting the row leaves its mapping rows
NoCascade(table, k) == table

\* the mapping rows of a deleted row: ON DELETE CASCADE in the profile store,
\* the second DELETE of delete_job in the job store
Cascade(table, k) == Drop(table, k)

\* the list without its last item
Front(list) == SubSeq(list, 1, Len(list) - 1)

ProfileArgs(name, headline, experience, skills, company_name, location) ==
    [name |-> name, headline |-> headline, experience |-> experience, skills |-> skills,
     company_name |-> company_name, location |-> location]

JobArgs(title, company, location, skills, importance_map) ==
    [title |-> title, company |-> company, location |-> location, skills |-> skills,
     importance_map |-> importance_map]

\* register_new_user: INSERT ... RETURNING ProfileID, then one mapping row per
\* Skills row whose name is in skills; the with-block commits, or rolls back
\* on an exception. The sequence keeps the id it gave out.
register_new_user(name, headline, experience, skills, company_name, location, failure) ==
    LET profile_id == nextProfileID
        skill_ids == IF skills # <<>> THEN SkillIdsFor(PgSkills, skills) ELSE {}
        profiles_written ==
            IF failure = "connect" THEN Profiles
            ELSE Put(Profiles, profile_id,
                     ProfileRow(profile_id, name, headline, experience, company_name, location))
        mapping_written ==
            IF failure \in {"connect", "lookup"} THEN Profile_Skills_Mapping
            ELSE IF failure = "mapping"
            THEN SetSkillIds(Profile_Skills_Mapping, profile_id,
                             skill_ids \ {CHOOSE sid \in skill_ids : TRUE})
            ELSE SetSkillIds(Profile_Skills_Mapping, profile_id, skill_ids)
    IN /\ failure = "lookup" => skills # <<>>
       /\ failure = "mapping" => skill_ids # {}
       /\ Profiles' = Commit(failure, Profiles, profiles_written)
       /\ Profile_Skills_Mapping' = Commit(failure, Profile_Skills_Mapping, mapping_written)
       /\ nextProfileID' = IF failure = "connect" THEN nextProfileID ELSE nextProfileID + 1
       /\ lastCall' = Return("register_new_user", profile_id,
             ProfileArgs(name, headline, experience, skills, company_name, location), failure)
       /\ UNCHANGED <<PgSkills, Jobs, Job_Skills_Mapping, MySkills, nextJobID>>

\* update_profile: UPDATE (Location only when a location is given), DELETE the
\* mapping rows, INSERT the new ones. An insert for a ProfileID that has no
\* Profiles row violates the foreign key.
update_profile(profile_id, name, headline, experience, skills, company_name, location, failure) ==
    LET skill_ids == IF skills # <<>> THEN SkillIdsFor(PgSkills, skills) ELSE {}
        failed == IF failure = "none" /\ profile_id \notin ProfileIds /\ skill_ids # {}
                  THEN "foreign key" ELSE failure
        profiles_written ==
            IF failure = "connect" \/ profile_id \notin ProfileIds THEN Profiles
            ELSE Put(Profiles, profile_id,
                     ProfileRow(profile_id, name, headline, experience, company_name,
                                IF location # None THEN location
                                ELSE Profiles[profile_id].Location))
        mapping_written ==
            IF failure = "connect" THEN Profile_Skills_Mapping
            ELSE IF failed \in {"lookup", "foreign key"}
            THEN SetSkillIds(Profile_Skills_Mapping, profile_id, {})
            ELSE IF failure = "mapping"
            THEN SetSkillIds(Profile_Skills_Mapping, profile_id,
                             skill_ids \ {CHOOSE sid \in skill_ids : TRUE})
            ELSE SetSkillIds(Profile_Skills_Mapping, profile_id, skill_ids)
    IN /\ failure = "lookup" => skills # <<>>
       /\ failure = "mapping" => skill_ids # {}
       /\ Profiles' = Commit(failed, Profiles, profiles_written)
       /\ Profile_Skills_Mapping' = Commit(failed, Profile_Skills_Mapping, mapping_written)
       /\ lastCall' = Return("update_profile", profile_id,
             ProfileArgs(name, headline, experience, skills, company_name, location), failed)
       /\ UNCHANGED <<PgSkills, nextProfileID, Jobs, Job_Skills_Mapping, MySkills, nextJobID>>

\* what a delete meets in the store: the row of the id, mapping rows of the id
Found(id, table, mapping) == [row |-> id \in DOMAIN table, mapped |-> id \in DOMAIN mapping]

\* delete_profile: DELETE FROM Profiles; the mapping rows go by ON DELETE CASCADE
delete_profile(profile_id, failure) ==
    /\ failure \in {"none", "connect", "commit"}
    /\ Profiles' = Commit(failure, Profiles, Drop(Profiles, profile_id))
    /\ Profile_Skills_Mapping' =
          Commit(failure, Profile_Skills_Mapping, Cascade(Profile_Skills_Mapping, profile_id))
    /\ lastCall' = Return("delete_profile", profile_id,
          Found(profile_id, Profiles, Profile_Skills_Mapping), failure)
    /\ UNCHANGED <<PgSkills, nextProfileID, Jobs, Job_Skills_Mapping, MySkills, nextJobID>>

\* add_job: INSERT INTO Jobs, then one mapping row per item of skills whose
\* name the Skills table holds; conn.commit(). Without the commit the closed
\* connection rolls back; AUTO_INCREMENT keeps the id it gave out.
add_job(title, company, location, skills, importance_map, failure) ==
    LET job_id == nextJobID
        rows == JobSkillRows(skills, importance_map, MySkills)
        jobs_written ==
            IF failure = "connect" THEN Jobs
            ELSE Put(Jobs, job_id, JobRow(job_id, title, company, location))
        mapping_written ==
            IF failure \in {"connect", "lookup"} THEN Job_Skills_Mapping
            ELSE IF failure = "mapping"
            THEN SetJobRows(Job_Skills_Mapping, job_id,
                            JobSkillRows(Front(skills), importance_map, MySkills))
            ELSE SetJobRows(Job_Skills_Mapping, job_id, rows)
    IN /\ failure = "lookup" => skills # <<>>
       /\ failure = "mapping" =>
             skills # <<>> /\ SkillIdOf(MySkills, skills[Len(skills)]) # 0
       /\ Jobs' = Commit(failure, Jobs, jobs_written)
       /\ Job_Skills_Mapping' = Commit(failure, Job_Skills_Mapping, mapping_written)
       /\ nextJobID' = IF failure = "connect" THEN nextJobID ELSE nextJobID + 1
       /\ lastCall' = Return("add_job", job_id,
             JobArgs(title, company, location, skills, importance_map), failure)
       /\ UNCHANGED <<Profiles, Profile_Skills_Mapping, PgSkills, nextProfileID, MySkills>>

\* update_job: UPDATE, DELETE the mapping rows, INSERT the new ones, commit. An
\* insert for a JobID that has no Jobs row violates the foreign key.
update_job(job_id, title, company, location, skills, importance_map, failure) ==
    LET rows == JobSkillRows(skills, importance_map, MySkills)
        failed == IF failure = "none" /\ job_id \notin JobIds /\ rows # EmptyBag
                  THEN "foreign key" ELSE failure
        jobs_written ==
            IF failure = "connect" \/ job_id \notin JobIds THEN Jobs
            ELSE Put(Jobs, job_id, JobRow(job_id, title, company, location))
        mapping_written ==
            IF failure = "connect" THEN Job_Skills_Mapping
            ELSE IF failed \in {"lookup", "foreign key"}
            THEN SetJobRows(Job_Skills_Mapping, job_id, EmptyBag)
            ELSE IF failure = "mapping"
            THEN SetJobRows(Job_Skills_Mapping, job_id,
                            JobSkillRows(Front(skills), importance_map, MySkills))
            ELSE SetJobRows(Job_Skills_Mapping, job_id, rows)
    IN /\ failure = "lookup" => skills # <<>>
       /\ failure = "mapping" =>
             skills # <<>> /\ SkillIdOf(MySkills, skills[Len(skills)]) # 0
       /\ Jobs' = Commit(failed, Jobs, jobs_written)
       /\ Job_Skills_Mapping' = Commit(failed, Job_Skills_Mapping, mapping_written)
       /\ lastCall' = Return("update_job", job_id,
             JobArgs(title, company, location, skills, importance_map), failed)
       /\ UNCHANGED <<Profiles, Profile_Skills_Mapping, PgSkills, nextProfileID, MySkills,
                      nextJobID>>

\* delete_job: foreign key checks off, DELETE FROM Jobs, DELETE FROM
\* Job_Skills_Mapping, checks on, commit
delete_job(job_id, failure) ==
    /\ failure \in {"none", "connect", "commit"}
    /\ Jobs' = Commit(failure, Jobs, Drop(Jobs, job_id))
    /\ Job_Skills_Mapping' =
          Commit(failure, Job_Skills_Mapping, Cascade(Job_Skills_Mapping, job_id))
    /\ lastCall' = Return("delete_job", job_id, Found(job_id, Jobs, Job_Skills_Mapping), failure)
    /\ UNCHANGED <<Profiles, Profile_Skills_Mapping, PgSkills, nextProfileID, MySkills,
                   nextJobID>>

(***************************************************************************)
(* The two matching queries and the handlers that call them                *)
(***************************************************************************)
\* a percentage as an exact fraction num/den
Pct(num, den) == [num |-> num, den |-> den]

PctLess(a, b) == a.num * b.den < b.num * a.den

\* (mutant) HAVING percentage > threshold
PctAbove(a, threshold) == a.num > threshold * a.den

\* HAVING percentage >= threshold
PctAtLeast(a, threshold) == a.num >= threshold * a.den

\* a / b to the nearest integer, halves upwards (a >= 0, b > 0)
RoundDiv(a, b) == (2 * a + b) \div (2 * b)

\* LIMIT 50 of both matching queries
ResultLimit == 50

\* the percentages of P, largest first
RECURSIVE Descending(_)
Descending(P) ==
    IF P = {} THEN <<>>
    ELSE LET top == CHOOSE p \in P : \A q \in P : ~PctLess(p, q)
         IN <<top>> \o Descending(P \ {top})

\* the keys of K (each below next), smallest first or largest first
KeysInOrder(K, next, ascending) ==
    LET up == SelectSeq([i \in 1..(next - 1) |-> i], LAMBDA k : k \in K)
    IN IF ascending THEN up ELSE [i \in DOMAIN up |-> up[Len(up) + 1 - i]]

\* ORDER BY percentage DESC LIMIT 50 over the groups keys, pctOf[k] the
\* percentage of group k. SQL leaves the order of rows with equal percentage
\* open: keys ascending or keys descending here.
RECURSIVE Concat(_)
Concat(seqs) == IF seqs = <<>> THEN <<>> ELSE Head(seqs) \o Concat(Tail(seqs))

OrderByPctLimit(keys, pctOf, next, tieAscending) ==
    LET levels == Descending({pctOf[k] : k \in keys})
        ordered == Concat([i \in DOMAIN levels |->
                              KeysInOrder({k \in keys : pctOf[k] = levels[i]}, next,
                                          tieAscending)])
    IN SubSeq(ordered, 1, IF Len(ordered) < ResultLimit THEN Len(ordered) ELSE ResultLimit)

\* SUM(CASE WHEN s.SkillName IN (user_skills) THEN 1 ELSE 0 END) of a job's group:
\* one per mapping row, a row stored twice counted twice
MatchedRowCount(job_id, user_skills) ==
    LET rows == RowsOfJob(job_id)
        matched == {r \in BagToSet(rows) : MySkills[r.SkillID] \in Range(user_skills)}
    IN BagCardinality([r \in matched |-> rows[r]])

\* COUNT(DISTINCT jsm.SkillID) of a job's group
DistinctSkillCount(job_id) == Cardinality({r.SkillID : r \in BagToSet(RowsOfJob(job_id))})

\* ROUND((SUM / COUNT) * 100, 2): the quotient is a DECIMAL of four decimals,
\* so the percentage is a whole number of hundredths
MatchPercentage(job_id, user_skills) ==
    Pct(RoundDiv(MatchedRowCount(job_id, user_skills) * 10000, DistinctSkillCount(job_id)),
        100)

\* find_matching_jobs(user_skills, threshold): the rows of the DataFrame
find_matching_jobs(user_skills, threshold, tieAscending) ==
    IF user_skills = <<>> THEN <<>>
    ELSE LET groups == {j \in JobIds : MatchedRowCount(j, user_skills) > 0}
             pctOf == [j \in groups |-> MatchPercentage(j, user_skills)]
             having == {j \in groups : PctAtLeast(pctOf[j], threshold)}
             result == OrderByPctLimit(having, pctOf, nextJobID, tieAscending)
         IN [i \in DOMAIN result |->
               [key |-> result[i], JobTitle |-> Jobs[result[i]].JobTitle,
                CompanyName |-> Jobs[result[i]].CompanyName,
                Location |-> Jobs[result[i]].Location, pct |-> pctOf[result[i]]]]

\* the names a profile's group keeps after WHERE s.SkillName IN (required_skills)
MatchedSkills(profile_id, required) ==
    {PgSkills[sid] : sid \in SkillIdsOfProfile(profile_id)} \cap Range(required)

\* find_matching_candidates(required_skills, threshold): COUNT(DISTINCT
\* s.SkillName) * 100.0 / len(required_skills) per profile with a matched skill
find_matching_candidates(required, threshold, tieAscending) ==
    IF required = <<>> THEN <<>>
    ELSE LET groups == {p \in ProfileIds : MatchedSkills(p, required) # {}}
             pctOf == [p \in groups |->
                         Pct(Cardinality(MatchedSkills(p, required)) * 100, Len(required))]
             having == {p \in groups : PctAtLeast(pctOf[p], threshold)}
             result == OrderByPctLimit(having, pctOf, nextProfileID, tieAscending)
         IN [i \in DOMAIN result |->
               [key |-> result[i], FullName |-> Profiles[result[i]].FullName,
                Headline |-> Profiles[result[i]].Headline,
                YearsOfExperience |-> Profiles[result[i]].YearsOfExperience,
                CompanyName |-> Profiles[result[i]].CompanyName,
                MatchedSkills |-> MatchedSkills(result[i], required),
                pct |-> pctOf[result[i]]]]

\* a list of the members of S, in the order the store happens to return them
RECURSIVE Listing(_)
Listing(S) ==
    IF S = {} THEN <<>>
    ELSE LET x == CHOOSE y \in S : TRUE IN <<x>> \o Listing(S \ {x})

\* get_user_skills(profile_id)
get_user_skills(profile_id) ==
    Listing({PgSkills[sid] : sid \in SkillIdsOfProfile(profile_id)})

\* titles are word sequences; JobTitle LIKE %job_title%
Like(title, job_title) ==
    \E i \in 0..(Len(title) - Len(job_title)) :
        SubSeq(title, i + 1, i + Len(job_title)) = job_title

\* get_all_skills_for_job_title(job_title): SELECT DISTINCT s.SkillName over the
\* mapping rows joined to a job with a title like job_title
get_all_skills_for_job_title(job_title) ==
    Listing(UNION {{MySkills[r.SkillID] : r \in BagToSet(RowsOfJob(j))} :
                      j \in {k \in JobIds : Like(Jobs[k].JobTitle, job_title)}})

\* threshold=40 of find_eligible_jobs_for_user, threshold=60 of
\* find_eligible_candidates_for_job
JobEligibilityThreshold == 40
CandidateSearchThreshold == 60

(***************************************************************************)
(* The stores under CRUD and matching calls                                *)
(***************************************************************************)
\* rows each store is seeded with, and rows created on top of the seed
BulkRows == 50
MaxNewRows == 2

\* job titles, word by word
Engineer == <<"Engineer">>
CloudEngineer == <<"Cloud", "Engineer">>
Chef == <<"Chef">>

AllSkills == <<Python, Java, Go, SQL, Docker>>

\* skills arguments of the profile forms and of the job forms
AddProfileSkillLists == {<<Python, SQL>>, <<Docker, Go, Python>>}
EditProfileSkillLists == {AllSkills}
AddJobSkillLists == {<<Python, Python>>, AllSkills}
EditJobSkillLists == {<<Python, SQL>>}

\* skill lists the matching queries are called with
MatchSkillLists == {<<>>, <<Python, Python>>, AllSkills}

\* importance_map of the job forms: a radio choice per listed skill
ImportanceMaps == {[n \in {Python} |-> "Mandatory"]}

NewRows == (nextProfileID - BulkRows - 1) + (nextJobID - BulkRows - 1)

\* the ids the edit and delete forms are used with: the newest row made on top
\* of the seed, and a row that does not exist
ProfileIdChoices == {id \in {nextProfileID - 1, nextProfileID} : id > BulkRows}
JobIdChoices == {id \in {nextJobID - 1, nextJobID} : id > BulkRows}

\* the reading operations. They leave the stores alone: a read after a read
\* returns what the same read returns straight after the last write, so reads
\* are taken from there.
Reads == {"find_matching_jobs", "find_matching_candidates",
          "find_eligible_jobs_for_user", "find_eligible_candidates_for_job"}

AfterWrite == lastCall.op \notin Reads

AddProfile ==
    /\ NewRows < MaxNewRows
    /\ \E skills \in AddProfileSkillLists :
          register_new_user("Asha Rao", "Developer", 3, skills, "Acme", "Bangalore", "none")
    /\ UNCHANGED <<routerVars, gapVars>>

EditProfile ==
    /\ \E profile_id \in ProfileIdChoices, skills \in EditProfileSkillLists :
          update_profile(profile_id, "Asha Rao", "Architect", 4, skills, "Initech", None, "none")
    /\ UNCHANGED <<routerVars, gapVars>>

DeleteProfile ==
    /\ \E profile_id \in ProfileIdChoices : delete_profile(profile_id, "none")
    /\ UNCHANGED <<routerVars, gapVars>>

AddJob ==
    /\ NewRows < MaxNewRows
    /\ \E skills \in AddJobSkillLists, importance_map \in ImportanceMaps :
          add_job(Engineer, "Acme", "Pune", skills, importance_map, "none")
    /\ UNCHANGED <<routerVars, gapVars>>

EditJob ==
    /\ \E job_id \in JobIdChoices, skills \in EditJobSkillLists,
          importance_map \in ImportanceMaps :
          update_job(job_id, CloudEngineer, "Initech", "Delhi", skills, importance_map, "none")
    /\ UNCHANGED <<routerVars, gapVars>>

DeleteJob ==
    /\ \E job_id \in JobIdChoices : delete_job(job_id, "none")
    /\ UNCHANGED <<routerVars, gapVars>>

MatchJobs ==
    /\ AfterWrite
    /\ \E user_skills \in MatchSkillLists, threshold \in {0}, tieAscending \in BOOLEAN :
          lastCall' = [op |-> "find_matching_jobs", skills |-> user_skills,
                       threshold |-> threshold,
                       value |-> find_matching_jobs(user_skills, threshold, tieAscending)]
    /\ UNCHANGED <<Profiles, Profile_Skills_Mapping, PgSkills, nextProfileID,
                   Jobs, Job_Skills_Mapping, MySkills, nextJobID>>
    /\ UNCHANGED <<routerVars, gapVars>>

MatchCandidates ==
    /\ AfterWrite
    /\ \E required \in MatchSkillLists, threshold \in {0}, tieAscending \in BOOLEAN :
          lastCall' = [op |-> "find_matching_candidates", skills |-> required,
                       threshold |-> threshold,
                       value |-> find_matching_candidates(required, threshold, tieAscending)]
    /\ UNCHANGED <<Profiles, Profile_Skills_Mapping, PgSkills, nextProfileID,
                   Jobs, Job_Skills_Mapping, MySkills, nextJobID>>
    /\ UNCHANGED <<routerVars, gapVars>>

\* find_eligible_jobs_for_user(user_name). get_user_profile answers
\* UNIQUE_MATCH with the row of some stored profile, or another status.
find_eligible_jobs_for_user ==
    /\ AfterWrite
    /\ \E user_name \in {None, "Asha Rao"}, tieAscending \in BOOLEAN,
          profile_id \in {0} \cup (ProfileIds \cap {1, nextProfileID - 1}) :
          LET user_skills == get_user_skills(profile_id)
              matching_jobs == find_matching_jobs(user_skills, JobEligibilityThreshold,
                                                  tieAscending)
              value ==
                  IF user_name = None THEN [msg |-> "Please specify your name."]
                  ELSE IF profile_id = 0 THEN [msg |-> "Profile not found or ambiguous."]
                  ELSE IF user_skills = <<>> THEN [msg |-> "You have no skills listed."]
                  ELSE IF matching_jobs = <<>> THEN [msg |-> "No matching jobs found."]
                  ELSE [msg |-> "Found jobs matching your skills:", table |-> matching_jobs]
          IN /\ user_name = None => profile_id = 0
             /\ lastCall' = [op |-> "find_eligible_jobs_for_user", profile_id |-> profile_id,
                             skills |-> IF profile_id = 0 THEN <<>> ELSE user_skills,
                             value |-> value]
    /\ UNCHANGED <<Profiles, Profile_Skills_Mapping, PgSkills, nextProfileID,
                   Jobs, Job_Skills_Mapping, MySkills, nextJobID>>
    /\ UNCHANGED <<routerVars, gapVars>>

\* find_eligible_candidates_for_job(target_job_title). The closest stored title
\* is some stored title, or the given title when none scores 50.
find_eligible_candidates_for_job ==
    /\ AfterWrite
    /\ \E target_job_title \in {<<>>, Engineer, Chef}, tieAscending \in BOOLEAN,
          summarised \in BOOLEAN :
       \E real_job_title \in {target_job_title} \cup {Jobs[j].JobTitle : j \in JobIds} :
          LET target_skills == IF target_job_title = <<>> THEN <<>>
                               ELSE get_all_skills_for_job_title(real_job_title)
              matching_candidates_df ==
                  find_matching_candidates(target_skills, CandidateSearchThreshold,
                                           tieAscending)
              value ==
                  IF target_job_title = <<>> THEN [msg |-> "Please specify a job title."]
                  ELSE IF target_skills = <<>> THEN [msg |-> "No jobs found for title."]
                  ELSE IF matching_candidates_df = <<>>
                       THEN [msg |-> "No candidates match 60% of skills."]
                  ELSE IF summarised
                       THEN [msg |-> "summary", table |-> matching_candidates_df]
                  ELSE [msg |-> "Found candidates.", table |-> matching_candidates_df]
          IN /\ target_job_title = <<>> => real_job_title = <<>>
             /\ (target_job_title = <<>> \/ target_skills = <<>>
                   \/ matching_candidates_df = <<>>) => summarised
             /\ lastCall' = [op |-> "find_eligible_candidates_for_job",
                             skills |-> target_skills, value |-> value]
    /\ UNCHANGED <<Profiles, Profile_Skills_Mapping, PgSkills, nextProfileID,
                   Jobs, Job_Skills_Mapping, MySkills, nextJobID>>
    /\ UNCHANGED <<routerVars, gapVars>>

\* both stores as db_setup leaves them, or after every seeded row was deleted
InitMatch ==
    /\ pc = "done"
    /\ json_text = <<>>
    /\ data = Unset
    /\ analysis_list = Unset
    /\ idx = 0
    /\ final_results = <<>>
    /\ returned = <<>>
    /\ llmCalls = 0
    /\ taskLog = <<>>
    /\ gapPc = "idle"
    /\ current_skills = <<>>
    /\ required_skills = <<>>
    /\ mand_gap = <<>>
    /\ pref_gap = <<>>
    /\ PgSkills = SkillVocabulary
    /\ MySkills = SkillVocabulary
    /\ nextProfileID = BulkRows + 1
    /\ nextJobID = BulkRows + 1
    /\ \E seeded \in {0, BulkRows} :
          /\ Profiles = [i \in 1..seeded |->
                            ProfileRow(i, "Seed Profile", "Developer", 1, "Acme", "Pune")]
          /\ Profile_Skills_Mapping =
                [i \in 1..seeded |-> {SkillIdOf(SkillVocabulary, Python)}]
          /\ Jobs = [i \in 1..seeded |-> JobRow(i, CloudEngineer, "Acme", "Pune")]
          /\ Job_Skills_Mapping =
                [i \in 1..seeded |->
                    SetToBag({[SkillID |-> SkillIdOf(SkillVocabulary, Python),
                               Importance |-> "Mandatory"]})]
    /\ lastCall = [op |-> "none"]

NextMatch ==
    \/ AddProfile
    \/ EditProfile
    \/ DeleteProfile
    \/ AddJob
    \/ EditJob
    \/ DeleteJob
    \/ MatchJobs
    \/ MatchCandidates
    \/ find_eligible_jobs_for_user
    \/ find_eligible_candidates_for_job

SpecMatch == InitMatch /\ [][NextMatch]_vars

(***************************************************************************)
(* Claims about the matching queries (checked under SpecMatch)             *)
(***************************************************************************)
\* the rows the last read returned
ReturnedRows ==
    IF lastCall.op \in {"find_matching_jobs", "find_matching_candidates"}
    THEN Range(lastCall.value)
    ELSE IF lastCall.op \in Reads /\ "table" \in DOMAIN lastCall.value
    THEN Range(lastCall.value.table)
    ELSE {}

JobRead == lastCall.op \in {"find_matching_jobs", "find_eligible_jobs_for_user"}

\* the skill names on each side of a returned row: the job's required names
\* against the user's names, or the required names against the candidate's
SkillNamesOfJob(job_id) == {MySkills[r.SkillID] : r \in BagToSet(RowsOfJob(job_id))}
SkillNamesOfProfile(profile_id) == {PgSkills[sid] : sid \in SkillIdsOfProfile(profile_id)}

TargetCovered(row) ==
    IF JobRead THEN SkillNamesOfJob(row.key) \subseteq Range(lastCall.skills)
    ELSE Range(lastCall.skills) \subseteq SkillNamesOfProfile(row.key)

\* C9: the match percentage of every row find_matching_jobs and
\* find_matching_candidates return lies in [0, 100], and is exactly 100 when the
\* skill set on the candidate/job side covers the target skill set; also with
\* several mapping rows for one skill of a job or a repeated name in the list.
C9_MatchPercentage ==
    \A row \in ReturnedRows :
        /\ 0 <= row.pct.num
        /\ row.pct.num <= 100 * row.pct.den
        /\ TargetCovered(row) => row.pct.num = 100 * row.pct.den

\* the keys of the returned rows
ReturnedKeys == {row.key : row \in ReturnedRows}

\* the percentage the query computes for a job with mapping rows, and for a
\* profile, against the skills of the last read
JobPct(job_id) == MatchPercentage(job_id, lastCall.skills)
CandidatePct(profile_id) ==
    Pct(Cardinality(MatchedSkills(profile_id, lastCall.skills)) * 100, Len(lastCall.skills))

JobsWithSkills == {j \in JobIds : RowsOfJob(j) # EmptyBag}

EligibleJobsAnswered ==
    lastCall.op = "find_eligible_jobs_for_user" /\ lastCall.skills # <<>>

CandidateSearchAnswered ==
    lastCall.op = "find_eligible_candidates_for_job" /\ lastCall.skills # <<>>

\* C10 as stated: job eligibility keeps exactly the jobs whose match
\* percentage is at least 40 and candidate search exactly the candidates whose
\* match percentage is at least 60: below the threshold a row is excluded, at
\* or above it the row is included.
C10_ThresholdFilter ==
    /\ EligibleJobsAnswered =>
          \A j \in JobsWithSkills :
              /\ JobPct(j).num < 40 * JobPct(j).den => j \notin ReturnedKeys
              /\ JobPct(j).num >= 40 * JobPct(j).den => j \in ReturnedKeys
    /\ CandidateSearchAnswered =>
          \A p \in ProfileIds :
              /\ CandidatePct(p).num < 60 * CandidatePct(p).den => p \notin ReturnedKeys
              /\ CandidatePct(p).num >= 60 * CandidatePct(p).den => p \in ReturnedKeys

\* a row at or above the threshold is missing only from a full page of 50 rows
\* none of which has a smaller percentage
CutByLimit(pct) ==
    /\ Cardinality(ReturnedKeys) = 50
    /\ \A row \in ReturnedRows : ~PctLess(row.pct, pct)

\* C10 (amended): job eligibility uses 40 and candidate search 60; a row
\* strictly below the threshold is excluded; a row at or above it (ties
\* included) is included unless more than 50 rows qualify, and then the 50
\* returned rows have percentages at least as high as every row left out.
C10_ThresholdFilterUpToLimit ==
    /\ EligibleJobsAnswered =>
          \A j \in JobsWithSkills :
              /\ JobPct(j).num < 40 * JobPct(j).den => j \notin ReturnedKeys
              /\ JobPct(j).num >= 40 * JobPct(j).den =>
                    j \in ReturnedKeys \/ CutByLimit(JobPct(j))
    /\ CandidateSearchAnswered =>
          \A p \in ProfileIds :
              /\ CandidatePct(p).num < 60 * CandidatePct(p).den => p \notin ReturnedKeys
              /\ CandidatePct(p).num >= 60 * CandidatePct(p).den =>
                    p \in ReturnedKeys \/ CutByLimit(CandidatePct(p))

\* a candidate search that returned a candidate at exactly 60 and left out a
\* candidate who holds some but less than 60 percent of the target skills
C10_Witness ==
    /\ CandidateSearchAnswered
    /\ \E row \in ReturnedRows : row.pct.num = 60 * row.pct.den
    /\ \E p \in ProfileIds :
          /\ 0 < CandidatePct(p).num
          /\ CandidatePct(p).num < 60 * CandidatePct(p).den
          /\ p \notin ReturnedKeys

(***************************************************************************)
(* get_user_profile: the identity resolver                                 *)
(***************************************************************************)
\* cur.fetchone() when the SELECT found no row, and the None of the other returns
NoRow == [type |-> "None"]

\* names of stored profiles, the most profiles the resolver is run against, and
\* the values fuzz.token_sort_ratio takes for a stored name in the model
ResolverNames == {"John Smith", "Jonathan Lee", "Asha Rao"}
MaxProfiles == 3
Scores == {79, 80, 81, 82, 95, 96}

\* if not best_matches or best_matches[0][1] < 80
ResolverCutoff == 80

\* process.extract(full_name, profile_choices.keys(), ..., limit=1): the names
\* with the highest score (one of them comes first; which one is the order of
\* the dict, that is of the rows of the SELECT)
BestNames(score) == {n \in DOMAIN score : \A o \in DOMAIN score : score[o] <= score[n]}

\* get_user_profile(full_name), with the scores of the stored names against
\* full_name. reachable: psycopg2.connect succeeds. deleted: another session
\* deletes the matched profile between the two SELECTs.
get_user_profile ==
    /\ \E score \in [{Profiles[p].FullName : p \in ProfileIds} -> Scores],
          reachable \in BOOLEAN, deleted \in BOOLEAN :
          \E best \in IF reachable /\ ProfileIds # {} THEN BestNames(score) ELSE {"none"} :
          \* profile_choices = {name: pid ...}: one pid per name, the last row read
          \E pid \in IF best = "none" THEN {0}
                     ELSE {p \in ProfileIds : Profiles[p].FullName = best} :
             LET matched == reachable /\ best # "none" /\ score[best] >= ResolverCutoff
                 value ==
                     IF ~reachable THEN [status |-> "ERROR", row |-> NoRow]
                     ELSE IF ~matched THEN [status |-> "NO_MATCH", row |-> NoRow]
                     ELSE [status |-> "UNIQUE_MATCH",
                           row |-> IF deleted THEN NoRow ELSE Profiles[pid]]
             IN /\ deleted => matched
                /\ lastCall' = [op |-> "get_user_profile", reachable |-> reachable,
                                score |-> score,
                                candidates |-> {Profiles[p] : p \in
                                    {q \in ProfileIds :
                                        score[Profiles[q].FullName] >= 80}},
                                value |-> value]
                /\ Profiles' = IF deleted THEN Drop(Profiles, pid) ELSE Profiles
                /\ Profile_Skills_Mapping' =
                      IF deleted THEN Drop(Profile_Skills_Mapping, pid)
                      ELSE Profile_Skills_Mapping
    /\ UNCHANGED <<PgSkills, nextProfileID, Jobs, Job_Skills_Mapping, MySkills, nextJobID>>
    /\ UNCHANGED <<routerVars, gapVars>>

\* a profile store of up to MaxProfiles registered profiles, names repeated or not
InitResolve ==
    /\ pc = "done"
    /\ json_text = <<>>
    /\ data = Unset
    /\ analysis_list = Unset
    /\ idx = 0
    /\ final_results = <<>>
    /\ returned = <<>>
    /\ llmCalls = 0
    /\ taskLog = <<>>
    /\ gapPc = "idle"
    /\ current_skills = <<>>
    /\ required_skills = <<>>
    /\ mand_gap = <<>>
    /\ pref_gap = <<>>
    /\ PgSkills = SkillVocabulary
    /\ MySkills = SkillVocabulary
    /\ \E names \in SeqsUpTo(ResolverNames, MaxProfiles) :
          /\ Profiles = [i \in DOMAIN names |->
                            ProfileRow(i, names[i], "Developer", 3, "Acme", "Bangalore")]
          /\ Profile_Skills_Mapping =
                [i \in DOMAIN names |-> {SkillIdOf(SkillVocabulary, Python)}]
          /\ nextProfileID = Len(names) + 1
    /\ Jobs = <<>>
    /\ Job_Skills_Mapping = <<>>
    /\ nextJobID = 1
    /\ lastCall = [op |-> "none"]

NextResolve == get_user_profile

SpecResolve == InitResolve /\ [][NextResolve]_vars

\* the last operation was a get_user_profile call
Resolved == lastCall.op = "get_user_profile"

\* C11: when more than one stored profile scores at least 80 for the name and
\* none scores above 95, get_user_profile returns AMBIGUOUS with all the
\* profiles that cleared the cutoff, never just the top match.
C11_AmbiguousWithAll ==
    (/\ Resolved
     /\ lastCall.reachable
     /\ Cardinality(lastCall.candidates) > 1
     /\ \A c \in lastCall.candidates : lastCall.score[c.FullName] <= 95)
    => /\ lastCall.value.status = "AMBIGUOUS"
       /\ lastCall.value.row = lastCall.candidates

\* C12: get_user_profile returns one of exactly three verdicts: NO_MATCH,
\* exactly when no stored name scores at least 80; UNIQUE_MATCH with the full
\* row of the matched profile, never a missing row; or AMBIGUOUS with all
\* candidate rows. This holds also when the store cannot be reached and when
\* the profile is deleted between the two reads.
C12_ThreeVerdicts ==
    Resolved =>
       /\ lastCall.value.status \in {"NO_MATCH", "UNIQUE_MATCH", "AMBIGUOUS"}
       /\ lastCall.value.status = "NO_MATCH" <=> lastCall.candidates = {}
       /\ lastCall.value.status = "UNIQUE_MATCH" => lastCall.value.row \in lastCall.candidates
       /\ lastCall.value.status = "AMBIGUOUS" => lastCall.value.row = lastCall.candidates

(***************************************************************************)
(* The CRUD operations on small stores, with store failures                *)
(***************************************************************************)
\* a skill name the Skills tables do not hold
Rust == <<82, 117, 115, 116>>

\* arguments of the CRUD calls
RegisterSkillLists == {<<Python, SQL>>, <<Python, Rust>>}
UpdateProfileSkillLists == {<<>>, <<SQL, Rust>>}
AddJobCallSkillLists == {<<Python, Python>>, <<SQL, Rust>>}
UpdateJobSkillLists == {<<>>, <<Python, Python>>}
CrudImportanceMaps == {[n \in {Python} |-> "Mandatory"]}
CrudLocations == {None, "Pune"}

\* the ids the calls are made with: the newest row and a row that does not exist
CrudProfileIds == {id \in {nextProfileID - 1, nextProfileID} : id >= 1}
CrudJobIds == {id \in {nextJobID - 1, nextJobID} : id >= 1}

\* rows created so far in both stores (the ids given out)
CrudRows == (nextProfileID - 1) + (nextJobID - 1)

CrudRegister ==
    /\ CrudRows < MaxNewRows
    /\ \E skills \in RegisterSkillLists, failure \in Failures :
          register_new_user("Asha Rao", "Developer", 3, skills, "Acme", "Bangalore", failure)
    /\ UNCHANGED <<routerVars, gapVars>>

CrudUpdateProfile ==
    /\ \E profile_id \in CrudProfileIds, skills \in UpdateProfileSkillLists,
          location \in CrudLocations, failure \in Failures :
          update_profile(profile_id, "Asha R. Rao", "Architect", 4, skills, "Initech",
                         location, failure)
    /\ UNCHANGED <<routerVars, gapVars>>

CrudDeleteProfile ==
    /\ \E profile_id \in CrudProfileIds, failure \in Failures :
          delete_profile(profile_id, failure)
    /\ UNCHANGED <<routerVars, gapVars>>

CrudAddJob ==
    /\ CrudRows < MaxNewRows
    /\ \E skills \in AddJobCallSkillLists, importance_map \in CrudImportanceMaps,
          failure \in Failures :
          add_job(Engineer, "Acme", "Pune", skills, importance_map, failure)
    /\ UNCHANGED <<routerVars, gapVars>>

CrudUpdateJob ==
    /\ \E job_id \in CrudJobIds, skills \in UpdateJobSkillLists,
          importance_map \in CrudImportanceMaps, failure \in Failures :
          update_job(job_id, CloudEngineer, "Initech", "Delhi", skills, importance_map,
                     failure)
    /\ UNCHANGED <<routerVars, gapVars>>

CrudDeleteJob ==
    /\ \E job_id \in CrudJobIds, failure \in Failures : delete_job(job_id, failure)
    /\ UNCHANGED <<routerVars, gapVars>>

\* both stores with their Skills tables filled and no profile or job yet
InitCrud ==
    /\ pc = "done"
    /\ json_text = <<>>
    /\ data = Unset
    /\ analysis_list = Unset
    /\ idx = 0
    /\ final_results = <<>>
    /\ returned = <<>>
    /\ llmCalls = 0
    /\ taskLog = <<>>
    /\ gapPc = "idle"
    /\ current_skills = <<>>
    /\ required_skills = <<>>
    /\ mand_gap = <<>>
    /\ pref_gap = <<>>
    /\ Profiles = <<>>
    /\ Profile_Skills_Mapping = <<>>
    /\ PgSkills = SkillVocabulary
    /\ nextProfileID = 1
    /\ Jobs = <<>>
    /\ Job_Skills_Mapping = <<>>
    /\ MySkills = SkillVocabulary
    /\ nextJobID = 1
    /\ lastCall = [op |-> "none"]

NextCrud ==
    \/ CrudRegister
    \/ CrudUpdateProfile
    \/ CrudDeleteProfile
    \/ CrudAddJob
    \/ CrudUpdateJob
    \/ CrudDeleteJob

SpecCrud == InitCrud /\ [][NextCrud]_vars

CrudOps == {"register_new_user", "update_profile", "delete_profile",
            "add_job", "update_job", "delete_job"}

\* C13: every CRUD operation returns a boolean in every case, True when it was
\* applied and False when a store step failed; no failure leaves the
\* operation as an exception.
C13_BooleanResult ==
    lastCall.op \in CrudOps =>
       /\ "value" \in DOMAIN lastCall
       /\ lastCall.value \in BOOLEAN
       /\ lastCall.value <=> lastCall.failure = "none"

\* a CRUD call that failed in the store after its first write
C13_Witness ==
    /\ lastCall.op \in CrudOps
    /\ lastCall.failure \in {"lookup", "mapping", "foreign key"}
    /\ lastCall.value = FALSE

\* get_all_profiles_data(): one row per profile with its skill names
\* (STRING_AGG(s.SkillName, ', ') as the set of the names; the row order of
\* ORDER BY p.FullName is left out)
get_all_profiles_data ==
    {[ProfileID |-> p, FullName |-> Profiles[p].FullName, Headline |-> Profiles[p].Headline,
      YearsOfExperience |-> Profiles[p].YearsOfExperience,
      CompanyName |-> Profiles[p].CompanyName, Location |-> Profiles[p].Location,
      Skills |-> {PgSkills[sid] : sid \in SkillIdsOfProfile(p)}] : p \in ProfileIds}

Registered == lastCall.op = "register_new_user" /\ lastCall.value

Deleted == lastCall.op = "delete_profile" /\ lastCall.value

\* the profile of the last call is listed with exactly the skill names wanted
ListedWith(wanted) ==
    /\ Range(get_user_skills(lastCall.id)) = wanted
    /\ \E row \in get_all_profiles_data :
          row.ProfileID = lastCall.id /\ row.Skills = wanted

\* C14 as stated: after a successful register_new_user with skill set {A, B},
\* get_user_skills and get_all_profiles_data list exactly {A, B} for the
\* profile; after a successful delete_profile the profile is not listed.
C14_RoundTrip ==
    /\ Registered => ListedWith(Range(lastCall.args.skills))
    /\ Deleted => \A row \in get_all_profiles_data : row.ProfileID # lastCall.id

\* C14 (amended): after a successful register_new_user with skill set {A, B},
\* get_user_skills and get_all_profiles_data list exactly those of A, B that
\* the Skills table holds (both, when both are names of the vocabulary); after
\* a successful delete_profile the profile is not listed.
C14_RoundTripInVocabulary ==
    /\ Registered => ListedWith(Range(lastCall.args.skills) \cap Range(PgSkills))
    /\ Deleted => \A row \in get_all_profiles_data : row.ProfileID # lastCall.id

\* a profile was registered with two names of the vocabulary
C14_Witness ==
    /\ Registered
    /\ lastCall.args.skills = <<Python, SQL>>
    /\ ListedWith({Python, SQL})

\* C15: update_job is idempotent: a second call with the same job id and the
\* same arguments, straight after a successful first call, leaves the job's
\* attributes and its mapping rows as the first call left them, with no row
\* gaining a copy.
C15_UpdateJobIdempotent ==
    [][(lastCall'.op = "update_job" /\ lastCall'.again)
         => (Jobs' = Jobs /\ Job_Skills_Mapping' = Job_Skills_Mapping)]_vars

\* update_job was called a second time, successfully, on a stored job with skills
C15_Witness ==
    /\ lastCall.op = "update_job"
    /\ lastCall.again
    /\ lastCall.value
    /\ lastCall.id \in JobIds
    /\ lastCall.id \in DOMAIN Job_Skills_Mapping

\* C16: after any sequence of add_job and update_job calls, with any skill
\* list, every job has at most one mapping row and so at most one importance
\* value per skill.
C16_OneRowPerSkill ==
    \A j \in DOMAIN Job_Skills_Mapping :
        \A r \in BagToSet(Job_Skills_Mapping[j]) :
            /\ CopiesIn(r, Job_Skills_Mapping[j]) = 1
            /\ \A o \in BagToSet(Job_Skills_Mapping[j]) : o.SkillID = r.SkillID => o = r

\* C17: after any sequence of CRUD operations, updates and deletes of ids that
\* do not exist included, every mapping row belongs to a stored profile or
\* job: no operation leaves an orphaned mapping row.
C17_NoOrphans ==
    /\ DOMAIN Profile_Skills_Mapping \subseteq ProfileIds
    /\ DOMAIN Job_Skills_Mapping \subseteq JobIds

\* a profile or job that had mapping rows was deleted
C17_Witness ==
    /\ lastCall.op \in {"delete_profile", "delete_job"}
    /\ lastCall.value
    /\ lastCall.args.row
    /\ lastCall.args.mapped

\* the operations that write a row and then its mapping rows
TwoStepOps == {"register_new_user", "update_profile", "add_job", "update_job"}

\* C18: when a step of register_new_user, update_profile, add_job or
\* update_job fails, the operation returns False and the tables of both stores
\* are exactly as before the call.
C18_Atomic ==
    [][(lastCall'.op \in TwoStepOps /\ ~lastCall'.value)
         => UNCHANGED <<Profiles, Profile_Skills_Mapping, Jobs, Job_Skills_Mapping>>]_vars

\* an operation failed at the skill lookup or at a mapping insert, after its
\* first write, on an entity that has skills stored
C18_Witness ==
    /\ lastCall.op \in {"update_profile", "update_job"}
    /\ lastCall.failure \in {"lookup", "mapping"}
    /\ \/ lastCall.id \in DOMAIN Profile_Skills_Mapping /\ lastCall.op = "update_profile"
       \/ lastCall.id \in DOMAIN Job_Skills_Mapping /\ lastCall.op = "update_job"

\* update_profile returned True for a stored profile
Updated ==
    /\ lastCall.op = "update_profile"
    /\ lastCall.value
    /\ lastCall.id \in ProfileIds

\* C19 as stated: after a successful update_profile every attribute of the
\* profile (full name, headline, years of experience, company name, location)
\* equals the value passed and its skill set equals the skill set passed.
C19_FullReplace ==
    Updated =>
       /\ Profiles[lastCall.id].FullName = lastCall.args.name
       /\ Profiles[lastCall.id].Headline = lastCall.args.headline
       /\ Profiles[lastCall.id].YearsOfExperience = lastCall.args.experience
       /\ Profiles[lastCall.id].CompanyName = lastCall.args.company_name
       /\ Profiles[lastCall.id].Location = lastCall.args.location
       /\ SkillNamesOfProfile(lastCall.id) = Range(lastCall.args.skills)

\* C19 (amended): after a successful update_profile the full name, headline,
\* years of experience and company name equal the values passed; the location
\* equals the value passed when one is passed and is left as it was when none
\* is passed; the skill set is the names passed that the Skills table holds.
C19_ReplaceExceptLocation ==
    [][(/\ lastCall'.op = "update_profile"
        /\ lastCall'.value
        /\ lastCall'.id \in DOMAIN Profiles')
         => /\ lastCall'.id \in DOMAIN Profiles
            /\ Profiles'[lastCall'.id].FullName = lastCall'.args.name
            /\ Profiles'[lastCall'.id].Headline = lastCall'.args.headline
            /\ Profiles'[lastCall'.id].YearsOfExperience = lastCall'.args.experience
            /\ Profiles'[lastCall'.id].CompanyName = lastCall'.args.company_name
            /\ Profiles'[lastCall'.id].Location =
                  IF lastCall'.args.location # None THEN lastCall'.args.location
                  ELSE Profiles[lastCall'.id].Location
            /\ {PgSkills[sid] : sid \in
                   IF lastCall'.id \in DOMAIN Profile_Skills_Mapping'
                   THEN Profile_Skills_Mapping'[lastCall'.id] ELSE {}}
                 = Range(lastCall'.args.skills) \cap Range(PgSkills)]_vars

\* a stored profile with skills was updated without a location and kept the
\* location it was registered with, its skills replaced
C19_Witness ==
    /\ Updated
    /\ lastCall.args.location = None
    /\ Profiles[lastCall.id].Location = "Bangalore"
    /\ lastCall.args.skills = <<SQL, Rust>>
    /\ SkillNamesOfProfile(lastCall.id) = {SQL}

\* C30: register_new_user, update_profile, add_job and update_job never change
\* the Skills table of their store; a requested name the vocabulary lacks is
\* skipped, the operation still returns True, and the stored skill set of the
\* entity is exactly the requested names the vocabulary holds.
C30_VocabularyUnchanged ==
    [][/\ PgSkills' = PgSkills
       /\ MySkills' = MySkills
       /\ (lastCall'.op \in TwoStepOps /\ lastCall'.failure = "none") => lastCall'.value
       /\ (lastCall'.op \in {"register_new_user", "update_profile"} /\ lastCall'.value)
            => (SkillNamesOfProfile(lastCall.id))'
                  = Range(lastCall'.args.skills) \cap Range(PgSkills)
       /\ (lastCall'.op \in {"add_job", "update_job"} /\ lastCall'.value)
            => (SkillNamesOfJob(lastCall.id))'
                  = Range(lastCall'.args.skills) \cap Range(MySkills)]_vars

\* a job was added with SQL and a name the vocabulary lacks
C30_Witness ==
    /\ lastCall.op = "add_job"
    /\ lastCall.value
    /\ lastCall.args.skills = <<SQL, Rust>>
    /\ SkillNamesOfJob(lastCall.id) = {SQL}
    /\ MySkills = SkillVocabulary

\* ---------------------------------------------------------------------------
\* find_people (universal search over profiles)
\* ---------------------------------------------------------------------------

\* str.lower() / LOWER() on the code points of a text
Lower(text) == [i \in DOMAIN text |-> IF text[i] \in 65..90 THEN text[i] + 32 ELSE text[i]]

\* column ILIKE %pattern%
ILike(text, pattern) == Like(Lower(text), Lower(pattern))

\* 'python', 'DOCKER'
python == Lower(Python)
DOCKER == <<68, 79, 67, 75, 69, 82>>

\* companies and cities as code points: 'SAP', 'IBM', 'sap', 'Pune', 'Delhi'
SAP == <<83, 65, 80>>
IBM == <<73, 66, 77>>
sap == Lower(SAP)
Pune == <<80, 117, 110, 101>>
Delhi == <<68, 101, 108, 104, 105>>

\* An argument left at None is the empty sequence; min_experience is <<n>> when
\* given; skills and location are the lists the isinstance(..., str) lines make.
PeopleArgs(skills, company_name, min_experience, location, exclude_company) ==
    [skills |-> skills, company_name |-> company_name, min_experience |-> min_experience,
     location |-> location, exclude_company |-> exclude_company]

\* any([skills, company_name, min_experience, location])
AnyCriterion(args) ==
    \/ args.skills # <<>>
    \/ args.company_name # <<>>
    \/ (args.min_experience # <<>> /\ args.min_experience[1] # 0)
    \/ args.location # <<>>

\* the conditions of the WHERE clause on the Profiles columns
ProfileConditions(p, args) ==
    /\ args.company_name # <<>> => ILike(Profiles[p].CompanyName, args.company_name)
    /\ args.exclude_company # <<>> => ~ILike(Profiles[p].CompanyName, args.exclude_company)
    /\ args.location # <<>> =>
          \E i \in DOMAIN args.location : ILike(Profiles[p].Location, args.location[i])
    /\ args.min_experience # <<>> => Profiles[p].YearsOfExperience >= args.min_experience[1]

\* the values of LOWER(s.SkillName) in the joined rows of profile p that pass
\* LOWER(s.SkillName) IN (lower_skills)
LowerSkillsIn(p, skills) ==
    {Lower(PgSkills[sid]) : sid \in SkillIdsOfProfile(p)} \cap {Lower(skills[i]) : i \in DOMAIN skills}

\* HAVING COUNT(DISTINCT LOWER(s.SkillName)) >= len(skills)
Having(p, skills) ==
    Cardinality(LowerSkillsIn(p, skills)) >= Len(skills)

\* the groups of the query: with a skill list, the profiles that keep a joined
\* row and pass HAVING; without one, the profiles that pass the WHERE clause
PeopleGroups(args) ==
    {p \in ProfileIds :
        /\ ProfileConditions(p, args)
        /\ args.skills # <<>> =>
              /\ LowerSkillsIn(p, args.skills) # {}
              /\ Having(p, args.skills)}

\* find_people: the prompt when no criterion is given, the error text when the
\* query raises, the "no candidates" text for an empty frame, else the frame
find_people(skills, company_name, min_experience, location, exclude_company, reachable) ==
    LET args == PeopleArgs(skills, company_name, min_experience, location, exclude_company)
        df == PeopleGroups(args)
    IN /\ lastCall' =
            [op |-> "find_people", args |-> args,
             reads |-> IF AnyCriterion(args) THEN <<"Profiles">> ELSE <<>>,
             oracle |-> 0,
             value |-> IF ~AnyCriterion(args) THEN [status |-> "prompt", rows |-> {}]
                       ELSE IF ~reachable THEN [status |-> "error", rows |-> {}]
                       ELSE IF df = {} THEN [status |-> "none", rows |-> {}]
                       ELSE [status |-> "found", rows |-> df]]
       /\ UNCHANGED <<Profiles, Profile_Skills_Mapping, PgSkills, nextProfileID,
                      Jobs, Job_Skills_Mapping, MySkills, nextJobID>>

MaxPeople == 2
PeopleSkillLists == {<<Python, Docker>>, <<Python, Java, Go, SQL>>, <<>>}
PeopleCompanies == {SAP, IBM}
PeopleExperience == {2, 5}
RequestedSkillLists == {<<>>, <<Python, Docker>>, <<python, DOCKER>>, <<Python, python>>}

RegisterPerson ==
    /\ Cardinality(ProfileIds) < MaxPeople
    /\ \E skills \in PeopleSkillLists, company_name \in PeopleCompanies,
          experience \in PeopleExperience :
          register_new_user("Asha Rao", "Developer", experience, skills, company_name,
                            Pune, "none")
    /\ UNCHANGED <<routerVars, gapVars>>

FindPeople ==
    /\ \E skills \in RequestedSkillLists, company_name \in {<<>>, sap},
          min_experience \in {<<>>, <<0>>, <<3>>}, location \in {<<>>, <<Delhi, Pune>>},
          exclude_company \in {<<>>, IBM}, reachable \in BOOLEAN :
          find_people(skills, company_name, min_experience, location, exclude_company,
                      reachable)
    /\ UNCHANGED <<routerVars, gapVars>>

NextPeople ==
    \/ RegisterPerson
    \/ FindPeople

SpecPeople == InitCrud /\ [][NextPeople]_vars

\* the profile holds every requested skill, names compared in lower case
HoldsEvery(p, skills) ==
    {Lower(skills[i]) : i \in DOMAIN skills}
        \subseteq {Lower(PgSkills[sid]) : sid \in SkillIdsOfProfile(p)}

\* C20: find_people with a list of requested skills returns exactly the
\* profiles that hold every requested skill (compared case-insensitively) and
\* satisfy the other filters, also when the list names a skill more than once
\* or in different letter case.
C20_EveryRequestedSkill ==
    (/\ lastCall.op = "find_people"
     /\ lastCall.args.skills # <<>>
     /\ lastCall.value.status \in {"found", "none"})
      => lastCall.value.rows =
            {p \in ProfileIds :
                HoldsEvery(p, lastCall.args.skills) /\ ProfileConditions(p, lastCall.args)}

\* one of the five filters of find_people is given (a min_experience of 0 counts)
AnyFilter(args) ==
    \/ args.skills # <<>>
    \/ args.company_name # <<>>
    \/ args.exclude_company # <<>>
    \/ args.min_experience # <<>>
    \/ args.location # <<>>

\* C21: a find_people call that gives any one of skills, company,
\* exclude-company, min-experience (0 included) or location runs the search;
\* the 'please specify' message is returned only when none of the five is given.
C21_OneFilterSuffices ==
    lastCall.op = "find_people" =>
        (lastCall.value.status = "prompt" <=> ~AnyFilter(lastCall.args))

(***************************************************************************)
(* The query handlers with failing stores and a failing oracle             *)
(***************************************************************************)
\* A handler call is recorded with the store reads it attempted, in order
\* ("pg" the profile store, "mysql" the job store) and the
\* number of generate_content calls; failed holds the positions of the reads
\* that raised.
Handled(op, args, value, reads, oracle, up) ==
    [op |-> op, args |-> args, value |-> value, reads |-> reads,
     oracle |-> oracle, failed |-> {i \in DOMAIN reads : ~up[reads[i]]}, llm |-> up.llm]

Services == [pg : BOOLEAN, mysql : BOOLEAN, llm : BOOLEAN]

\* a value that is a message only, and a message with a DataFrame
\* (raw: the text of the exception is part of the message)
Message(msg) == [msg |-> msg, table |-> <<>>, detail |-> <<>>, raw |-> FALSE]
\* (mutant) the DataFrame is dropped
WithoutTable(msg, table) == [msg |-> msg, table |-> <<>>, detail |-> <<>>, raw |-> FALSE]

WithTable(msg, table) == [msg |-> msg, table |-> table, detail |-> <<>>, raw |-> FALSE]

\* the company pattern "%" run_skill_forecast passes for "any company"
AnyCompany == <<37>>

\* get_user_profile as the handlers use it: hit is the profile whose name is the
\* best match at 80 or above, 0 when there is none
UserProfile(hit, up) ==
    IF ~up.pg THEN [status |-> "ERROR", row |-> NoRow, reads |-> <<"pg">>]
    ELSE IF hit = 0 THEN [status |-> "NO_MATCH", row |-> NoRow, reads |-> <<"pg">>]
    ELSE [status |-> "UNIQUE_MATCH", row |-> Profiles[hit], reads |-> <<"pg", "pg">>]

\* get_user_skills with its except: return []
UserSkills(profile_id, up) == IF up.pg THEN get_user_skills(profile_id) ELSE <<>>

\* get_target_job_skills(job_title, company_name): the (SkillName, Importance)
\* rows of the jobs whose title and company match; None (here the empty list,
\* both are falsy and only tested with 'not') when the store raises
get_target_job_skills(job_title, company_name, up) ==
    IF ~up.mysql THEN <<>>
    ELSE Listing(UNION {{<<MySkills[r.SkillID], r.Importance>> : r \in BagToSet(RowsOfJob(j))} :
                    j \in {k \in JobIds :
                             /\ Like(Jobs[k].JobTitle, job_title)
                             /\ (company_name = AnyCompany
                                   \/ ILike(Jobs[k].CompanyName, company_name))}})

\* (mutant) the oracle is asked whatever the gaps are
generate_learning_path_always(mandatory_gap, preferred_gap, up) ==
    IF up.llm
    THEN [value |-> [msg |-> "learning path", table |-> <<>>,
                     detail |-> <<mandatory_gap, preferred_gap>>, raw |-> FALSE],
          oracle |-> 1]
    ELSE [value |-> Message("Error generating path."), oracle |-> 1]

\* generate_learning_path(profile_data, mandatory_gap, preferred_gap)
generate_learning_path(mandatory_gap, preferred_gap, up) ==
    IF mandatory_gap = <<>> /\ preferred_gap = <<>>
    THEN [value |-> Message("You have all required skills!"), oracle |-> 0]
    ELSE IF up.llm
    THEN [value |-> [msg |-> "learning path", table |-> <<>>,
                     detail |-> <<mandatory_gap, preferred_gap>>, raw |-> FALSE],
          oracle |-> 1]
    ELSE [value |-> Message("Error generating path."), oracle |-> 1]

\* (mutant) only the name is required
NameMissing(user_name, target_job, company) == user_name = None

\* not all([user_name, target_job, company])
NotAllGiven(user_name, target_job, company) ==
    user_name = None \/ target_job = <<>> \/ company = <<>>

\* run_dynamic_query(analysis): the CareerPath handler
run_dynamic_query(user_name, target_job, company, hit, up) ==
    LET args == [user_name |-> user_name, target_job |-> target_job, company_name |-> company,
                 profile_id |-> hit]
        profile == UserProfile(hit, up)
        my_skills == UserSkills(hit, up)
        req_skills == get_target_job_skills(target_job, company, up)
        gaps == SkillGap(my_skills, req_skills)
        path == generate_learning_path(gaps[1], gaps[2], up)
    IN lastCall' =
         IF NotAllGiven(user_name, target_job, company)
         THEN Handled("run_dynamic_query", args, Message("Need name, job, and company."),
                      <<>>, 0, up)
         ELSE IF profile.status # "UNIQUE_MATCH"
         THEN Handled("run_dynamic_query", args, Message("Profile not found."),
                      profile.reads, 0, up)
         ELSE IF req_skills = <<>>
         THEN Handled("run_dynamic_query", args, Message("No data for job at company."),
                      profile.reads \o <<"pg", "mysql">>, 0, up)
         ELSE Handled("run_dynamic_query", args, path.value,
                      profile.reads \o <<"pg", "mysql">>, path.oracle, up)

\* get_internal_skill_audit(company_name, target_skills): the profiles of the
\* company (ILIKE without wildcards) holding two or more of the target skills
AuditLimit == 10
get_internal_skill_audit(company_name, target_skills) ==
    LET held(p) == {PgSkills[sid] : sid \in SkillIdsOfProfile(p)} \cap target_skills
        rows == {p \in ProfileIds :
                    /\ Lower(Profiles[p].CompanyName) = Lower(company_name)
                    /\ Cardinality(held(p)) >= 2}
        pctOf == [p \in rows |-> Pct(Cardinality(held(p)), 1)]
        result == OrderByPctLimit(rows, pctOf, nextProfileID, TRUE)
    IN SubSeq(result, 1, IF Len(result) < AuditLimit THEN Len(result) ELSE AuditLimit)

\* get_external_market_analysis(target_job_title): open_jobs_count
get_external_market_analysis(target_job_title) ==
    Cardinality({j \in JobIds : Like(Jobs[j].JobTitle, target_job_title)})

ForecastReads == <<"pg", "mysql", "pg", "mysql">>

\* run_skill_forecast(company_name, target_job_title). failAt is the position
\* of the store read that raises (0: none): 1 the company check, 2 the target
\* skills, 3 the internal audit, 4 the external market analysis.
run_skill_forecast(company_name, target_job_title, failAt, llmUp) ==
    LET args == [company_name |-> company_name, target_job |-> target_job_title]
        check == Cardinality({p \in ProfileIds : ILike(Profiles[p].CompanyName, company_name)})
        skills == get_target_job_skills(target_job_title, AnyCompany,
                                        [mysql |-> failAt # 2])
        target_skills == {s[1] : s \in Range(skills)}
        internal == IF failAt = 3 THEN <<>>
                    ELSE get_internal_skill_audit(company_name, target_skills)
        external == IF failAt = 4 THEN 0
                    ELSE get_external_market_analysis(target_job_title)
        Out(value, n, oracle) ==
            [op |-> "run_skill_forecast", args |-> args, value |-> value,
             reads |-> SubSeq(ForecastReads, 1, n), oracle |-> oracle,
             failed |-> {failAt} \cap 1..n, llm |-> llmUp]
    IN lastCall' =
         IF company_name = <<>> \/ target_job_title = <<>>
         THEN Out(Message("Need company and job title."), 0, 0)
         ELSE IF failAt = 1
         THEN Out([msg |-> "Error: {e}", table |-> <<>>, detail |-> <<>>, raw |-> TRUE], 1, 0)
         ELSE IF check = 0 THEN Out(Message("Company not found."), 1, 0)
         ELSE IF skills = <<>> THEN Out(Message("No market data."), 2, 0)
         ELSE IF ~llmUp
         THEN Out([msg |-> "Error: {e}", table |-> <<>>, detail |-> <<>>, raw |-> TRUE], 4, 1)
         ELSE Out([msg |-> "forecast", table |-> <<>>,
                   detail |-> <<target_skills, internal, external>>, raw |-> FALSE], 4, 1)

\* find_eligible_jobs_for_user(user_name) with failing stores
EligibleJobsForUser(user_name, hit, up) ==
    LET args == [user_name |-> user_name, profile_id |-> hit]
        profile == UserProfile(hit, up)
        user_skills == UserSkills(hit, up)
        matching_jobs == IF up.mysql
                         THEN find_matching_jobs(user_skills, JobEligibilityThreshold, TRUE)
                         ELSE <<>>
        Out(value, reads) == Handled("find_eligible_jobs_for_user", args, value, reads, 0, up)
    IN lastCall' =
         IF user_name = None THEN Out(Message("Please specify your name."), <<>>)
         ELSE IF profile.status # "UNIQUE_MATCH"
         THEN Out(Message("Profile not found or ambiguous."), profile.reads)
         ELSE IF user_skills = <<>>
         THEN Out(Message("You have no skills listed."), profile.reads \o <<"pg">>)
         ELSE IF matching_jobs = <<>>
         THEN Out(Message("No matching jobs found."), profile.reads \o <<"pg", "mysql">>)
         ELSE Out(WithTable("Found jobs matching your skills:", matching_jobs),
                  profile.reads \o <<"pg", "mysql">>)

\* find_eligible_candidates_for_job(target_job_title) with failing stores and a
\* failing oracle; real_job_title is the answer of get_closest_job_title_from_db
EligibleCandidatesForJob(target_job_title, real_job_title, up) ==
    LET args == [target_job |-> target_job_title]
        target_skills == IF up.mysql THEN get_all_skills_for_job_title(real_job_title)
                         ELSE <<>>
        matching_candidates_df ==
            IF up.pg
            THEN find_matching_candidates(target_skills, CandidateSearchThreshold, TRUE)
            ELSE <<>>
        Out(value, reads, oracle) ==
            Handled("find_eligible_candidates_for_job", args, value, reads, oracle, up)
    IN lastCall' =
         IF target_job_title = <<>> THEN Out(Message("Please specify a job title."), <<>>, 0)
         ELSE IF target_skills = <<>>
         THEN Out(Message("No jobs found for title."), <<"mysql", "mysql">>, 0)
         ELSE IF matching_candidates_df = <<>>
         THEN Out(Message("No candidates match 60% of skills."), <<"mysql", "mysql", "pg">>, 0)
         ELSE IF up.llm
         THEN Out(WithTable("summary", matching_candidates_df), <<"mysql", "mysql", "pg">>, 1)
         ELSE Out(WithTable("Found N candidates.", matching_candidates_df),
                  <<"mysql", "mysql", "pg">>, 1)

\* get_skills_for_user(user_name)
get_skills_for_user(user_name, hit, up) ==
    LET args == [user_name |-> user_name, profile_id |-> hit]
        profile == UserProfile(hit, up)
        Out(value, reads) == Handled("get_skills_for_user", args, value, reads, 0, up)
    IN lastCall' =
         IF user_name = None THEN Out(Message("Please specify a name."), <<>>)
         ELSE IF profile.status # "UNIQUE_MATCH"
         THEN Out(Message("Profile not found."), profile.reads)
         ELSE Out([msg |-> "Skills for user", table |-> <<>>,
                   detail |-> UserSkills(hit, up), raw |-> FALSE], profile.reads \o <<"pg">>)

\* get_skills_for_job(job_title, company_name)
get_skills_for_job(job_title, company_name, up) ==
    LET args == [target_job |-> job_title, company_name |-> company_name]
        skills == get_target_job_skills(job_title, company_name, up)
        unique == {s[1] : s \in Range(skills)}
        mandatory == {s[1] : s \in {r \in Range(skills) : r[2] = "Mandatory"}}
        Out(value, reads) == Handled("get_skills_for_job", args, value, reads, 0, up)
    IN lastCall' =
         IF job_title = <<>> \/ company_name = <<>>
         THEN Out(Message("Specify job and company."), <<>>)
         ELSE IF skills = <<>> THEN Out(Message("No data found."), <<"mysql">>)
         ELSE Out([msg |-> "Skills for job at company", table |-> <<>>,
                   detail |-> <<Sorted(mandatory), Sorted(unique \ mandatory)>>,
                   raw |-> FALSE], <<"mysql">>)

\* the value and the reads of find_jobs_by_criteria(company_name, job_title,
\* location, skills); location and skills are lists
JobsByCriteria(company_name, job_title, location, skills, up) ==
    LET names(j) == {MySkills[r.SkillID] : r \in BagToSet(RowsOfJob(j))}
        df == {j \in JobIds :
                 /\ company_name # <<>> => ILike(Jobs[j].CompanyName, company_name)
                 /\ job_title # <<>> => Like(Jobs[j].JobTitle, job_title)
                 /\ location # <<>> =>
                       \E i \in DOMAIN location : ILike(Jobs[j].Location, location[i])
                 /\ \A i \in DOMAIN skills :
                       \E n \in names(j) : Lower(n) = Lower(skills[i])}
    IN IF company_name = <<>> /\ job_title = <<>> /\ location = <<>> /\ skills = <<>>
       THEN [value |-> Message("Please specify criteria."), reads |-> <<>>]
       ELSE IF ~up.mysql
       THEN [value |-> Message("Error retrieving jobs."), reads |-> <<"mysql">>]
       ELSE IF df = {}
       THEN [value |-> Message("No job openings found matching your criteria."),
             reads |-> <<"mysql">>]
       ELSE [value |-> WithTable("Found job openings:", Listing(df)), reads |-> <<"mysql">>]

find_jobs_by_criteria(company_name, job_title, location, skills, up) ==
    LET out == JobsByCriteria(company_name, job_title, location, skills, up)
    IN lastCall' = Handled("find_jobs_by_criteria",
                           [company_name |-> company_name, target_job |-> job_title,
                            location |-> location, skills |-> skills],
                           out.value, out.reads, 0, up)

\* the values of the metric, target_table and group_by slots (None: null)
Metrics == {"AVG", "RANK", "COUNT", "COMPARE", None}
TargetTables == {"PROFILES", "JOBS", None}
GroupBys == {"Company", "Headline", "Location", "Skill", None}

\* the profiles holding a skill whose name is the given one (ILIKE, no wildcard)
ProfilesWithSkill(skill) ==
    {p \in ProfileIds : \E sid \in SkillIdsOfProfile(p) : Lower(PgSkills[sid]) = Lower(skill)}

\* the jobs requiring a skill whose name is the given one (LIKE, no wildcard)
JobsWithSkill(skill) ==
    {j \in JobIds : \E r \in BagToSet(RowsOfJob(j)) : Lower(MySkills[r.SkillID]) = Lower(skill)}

\* COUNT(*) ... GROUP BY column: the (value, count) rows over a set of row ids
CountBy(table, ids, column) ==
    {<<v, Cardinality({i \in ids : table[i][column] = v})>> : v \in {table[i][column] : i \in ids}}

RECURSIVE SumOf(_, _)
SumOf(f, S) ==
    IF S = {} THEN 0 ELSE LET x == CHOOSE y \in S : TRUE IN f[x] + SumOf(f, S \ {x})

\* the answer of the combinations the dispatch knows; "none" when the
\* (metric, target_table, group_by) combination has no branch of its own
AnalyticsBranch(params) ==
    IF params.target_table = "PROFILES" /\ params.metric = "AVG" /\ params.target_skill # <<>>
    THEN "average experience"
    ELSE IF params.target_table = "PROFILES" /\ params.metric \in {"RANK", "COUNT"}
            /\ params.group_by = "Company"
    THEN "top companies"
    ELSE IF params.target_table = "PROFILES" /\ params.metric \in {"RANK", "COUNT"}
            /\ params.group_by = "Headline"
    THEN "profile counts for titles"
    ELSE IF params.target_table = "JOBS" /\ params.metric = "RANK"
            /\ params.group_by = "Location"
    THEN "locations with most openings"
    ELSE IF params.target_table = "JOBS" /\ params.metric = "RANK" /\ params.group_by = "Skill"
    THEN "top demanded mandatory skills"
    ELSE IF params.target_table = "JOBS" THEN "find_jobs_by_criteria"
    ELSE IF params.metric = "COMPARE" THEN "supply vs demand"
    ELSE "none"

AnalyticsArgs(metric, target_table, group_by, target_skill, target_job, company_name) ==
    [metric |-> metric, target_table |-> target_table, group_by |-> group_by,
     target_skill |-> target_skill, target_job |-> target_job, company_name |-> company_name]

\* run_analytics_query(params); min_experience, limit and location are not
\* given, and the LIMITs of the queries do not cut the stores of the model
run_analytics_query(params, up) ==
    LET branch == AnalyticsBranch(params)
        titled == {j \in JobIds : params.target_job # <<>>
                                    /\ Like(Jobs[j].JobTitle, params.target_job)}
        headed == {p \in ProfileIds : params.target_job # <<>> =>
                                        Like(Profiles[p].Headline, params.target_job)}
        skill == IF params.target_skill # <<>> THEN params.target_skill[1] ELSE <<>>
        holders == ProfilesWithSkill(skill)
        experience == [p \in ProfileIds |-> Profiles[p].YearsOfExperience]
        mandatory ==
            UNION {{MySkills[r.SkillID] : r \in {q \in BagToSet(RowsOfJob(j)) :
                                                   q.Importance = "Mandatory"}} : j \in titled}
        jobs == JobsByCriteria(params.company_name, <<>>, <<>>, params.target_skill, up)
        Sorry == Message("Sorry, could not perform that analysis.")
        Told(msg, detail) == [msg |-> msg, table |-> <<>>, detail |-> detail, raw |-> FALSE]
        Out(value, reads) == Handled("run_analytics_query", params, value, reads, 0, up)
    IN lastCall' =
         IF branch = "average experience"
         THEN Out(IF ~up.pg \/ holders = {} THEN Sorry
                  ELSE Told(branch, <<SumOf(experience, holders), Cardinality(holders)>>),
                  <<"pg">>)
         ELSE IF branch = "top companies"
         THEN Out(IF ~up.pg THEN Sorry
                  ELSE Told(branch, <<CountBy(Profiles, ProfileIds, "CompanyName")>>), <<"pg">>)
         ELSE IF branch = "profile counts for titles"
         THEN Out(IF ~up.pg THEN Sorry
                  ELSE Told(branch, <<CountBy(Profiles, headed, "Headline")>>), <<"pg">>)
         ELSE IF branch = "locations with most openings"
         THEN Out(IF ~up.mysql THEN Sorry
                  ELSE Told(branch, <<CountBy(Jobs, titled, "Location")>>), <<"mysql">>)
         ELSE IF branch = "top demanded mandatory skills"
         THEN Out(IF ~up.mysql THEN Sorry ELSE Told(branch, <<mandatory>>), <<"mysql">>)
         ELSE IF branch = "find_jobs_by_criteria" THEN Out(jobs.value, jobs.reads)
         ELSE IF branch = "supply vs demand"
         THEN Out(IF ~up.pg \/ ~up.mysql THEN Sorry
                  ELSE Told(branch, <<Cardinality(holders), Cardinality(JobsWithSkill(skill))>>),
                  IF up.pg THEN <<"pg", "mysql">> ELSE <<"pg">>)
         ELSE Out(Message("No specific calculation module for that combination."), <<>>)

\* The stores the handlers are run against: empty, or two profiles and two
\* jobs. Asha Rao holds both skills of the Engineer posting at SAP, John Smith
\* both of the Cloud Engineer posting at IBM, which marks no skill Mandatory.
HandlerProfiles ==
    <<[ProfileID |-> 1, FullName |-> "Asha Rao", Headline |-> Engineer,
       YearsOfExperience |-> 5, CompanyName |-> SAP, Location |-> Pune],
      [ProfileID |-> 2, FullName |-> "John Smith", Headline |-> CloudEngineer,
       YearsOfExperience |-> 2, CompanyName |-> IBM, Location |-> Delhi]>>

HandlerJobs ==
    <<JobRow(1, Engineer, SAP, Pune), JobRow(2, CloudEngineer, IBM, Delhi)>>

HandlerJobSkills ==
    <<JobSkillRows(<<Python, SQL>>, [n \in {Python} |-> "Mandatory"], SkillVocabulary),
      JobSkillRows(<<Docker, Go>>, <<>>, SkillVocabulary)>>

HandlerStoreVars == <<Profiles, Profile_Skills_Mapping, PgSkills, nextProfileID,
                      Jobs, Job_Skills_Mapping, MySkills, nextJobID>>

InitHandlers ==
    /\ pc = "done"
    /\ json_text = <<>>
    /\ data = Unset
    /\ analysis_list = Unset
    /\ idx = 0
    /\ final_results = <<>>
    /\ returned = <<>>
    /\ llmCalls = 0
    /\ taskLog = <<>>
    /\ gapPc = "idle"
    /\ current_skills = <<>>
    /\ required_skills = <<>>
    /\ mand_gap = <<>>
    /\ pref_gap = <<>>
    /\ PgSkills = SkillVocabulary
    /\ MySkills = SkillVocabulary
    /\ \E seeded \in BOOLEAN :
          /\ Profiles = IF seeded THEN HandlerProfiles ELSE <<>>
          /\ Profile_Skills_Mapping =
                IF seeded THEN <<SkillIdsFor(SkillVocabulary, <<Python, SQL>>),
                                 SkillIdsFor(SkillVocabulary, <<Docker, Go>>)>>
                ELSE <<>>
          /\ nextProfileID = IF seeded THEN 3 ELSE 1
          /\ Jobs = IF seeded THEN HandlerJobs ELSE <<>>
          /\ Job_Skills_Mapping = IF seeded THEN HandlerJobSkills ELSE <<>>
          /\ nextJobID = IF seeded THEN 3 ELSE 1
    /\ lastCall = [op |-> "none"]

\* The handlers change no store, so a call made after another call meets the
\* stores the first one met: each handler is run on the stores as set up.
FirstCall == lastCall.op = "none"

UserNames == {None, "Asha Rao"}
JobTitles == {<<>>, Engineer, CloudEngineer, Chef}
Companies == {<<>>, SAP, IBM}
Hits == {0} \cup ProfileIds

CareerPath ==
    /\ FirstCall
    /\ \E user_name \in UserNames, target_job \in JobTitles, company \in Companies,
          hit \in Hits, up \in Services :
          run_dynamic_query(user_name, target_job, company, hit, up)
    /\ UNCHANGED <<HandlerStoreVars, routerVars, gapVars>>

SkillForecast ==
    /\ FirstCall
    /\ \E company_name \in Companies, target_job_title \in JobTitles, failAt \in 0..4,
          llmUp \in BOOLEAN :
          run_skill_forecast(company_name, target_job_title, failAt, llmUp)
    /\ UNCHANGED <<HandlerStoreVars, routerVars, gapVars>>

EligibleJobs ==
    /\ FirstCall
    /\ \E user_name \in UserNames, hit \in Hits, up \in Services :
          EligibleJobsForUser(user_name, hit, up)
    /\ UNCHANGED <<HandlerStoreVars, routerVars, gapVars>>

CandidateSearch ==
    /\ FirstCall
    /\ \E target_job_title \in JobTitles, up \in Services :
       \E real_job_title \in {target_job_title}
                               \cup IF up.mysql THEN {Jobs[j].JobTitle : j \in JobIds} ELSE {} :
          EligibleCandidatesForJob(target_job_title, real_job_title, up)
    /\ UNCHANGED <<HandlerStoreVars, routerVars, gapVars>>

UserSkillLookup ==
    /\ FirstCall
    /\ \E user_name \in UserNames, hit \in Hits, up \in Services :
          get_skills_for_user(user_name, hit, up)
    /\ UNCHANGED <<HandlerStoreVars, routerVars, gapVars>>

SkillLookup ==
    /\ FirstCall
    /\ \E job_title \in JobTitles, company_name \in Companies, up \in Services :
          get_skills_for_job(job_title, company_name, up)
    /\ UNCHANGED <<HandlerStoreVars, routerVars, gapVars>>

FindJobs ==
    /\ FirstCall
    /\ \E company_name \in Companies, job_title \in JobTitles,
          location \in {<<>>, <<Pune>>}, skills \in {<<>>, <<Python>>, <<Docker, Rust>>},
          up \in Services :
          find_jobs_by_criteria(company_name, job_title, location, skills, up)
    /\ UNCHANGED <<HandlerStoreVars, routerVars, gapVars>>

Analytics ==
    /\ FirstCall
    /\ \E metric \in Metrics, target_table \in TargetTables, group_by \in GroupBys,
          target_skill \in {<<>>, <<Python>>}, target_job \in {<<>>, Engineer},
          company_name \in {<<>>, SAP}, up \in Services :
          run_analytics_query(AnalyticsArgs(metric, target_table, group_by, target_skill,
                                            target_job, company_name), up)
    /\ UNCHANGED <<HandlerStoreVars, routerVars, gapVars>>

NextHandlers ==
    \/ CareerPath
    \/ SkillForecast
    \/ EligibleJobs
    \/ CandidateSearch
    \/ UserSkillLookup
    \/ SkillLookup
    \/ FindJobs
    \/ Analytics

SpecHandlers == InitHandlers /\ [][NextHandlers]_vars

(***************************************************************************)
(* Properties of the handlers                                              *)
(***************************************************************************)
\* the combination has a branch of its own in run_analytics_query (a COMPARE
\* on any table counted as one)
RecognisedCombination(params) ==
    \/ AnalyticsBranch(params) \notin {"none", "find_jobs_by_criteria"}
    \/ params.metric = "COMPARE"

\* C22: for every Analytics task whose (metric, target_table, group_by)
\* combination is not a recognised one, run_analytics_query returns the 'no
\* specific calculation module for that combination' message.
C22_UnrecognisedCombination ==
    (lastCall.op = "run_analytics_query" /\ ~RecognisedCombination(lastCall.args))
      => lastCall.value.msg = "No specific calculation module for that combination."

\* C23: in run_skill_forecast a store error in either branch degrades only
\* that branch: whenever a store read fails the forecast is still produced,
\* that is the oracle is still called.
C23_ForecastSurvivesStoreError ==
    (lastCall.op = "run_skill_forecast" /\ lastCall.failed # {})
      => lastCall.oracle = 1

\* the messages the handlers return from their except clauses
ErrorMessages == {"Error retrieving jobs.", "Sorry, could not perform that analysis.",
                  "Error generating path.", "Error: {e}"}

\* C24: for every handler a store failure yields the error message, never the
\* 'not found' / 'no matches' message of an empty result.
C24_FailureIsNotNoMatch ==
    (lastCall.op # "none" /\ lastCall.failed # {})
      => lastCall.value.msg \in ErrorMessages

\* the call lacks a required input of its handler: a person name, a job
\* title, a company, or every filter of the job search
MissingInput(call) ==
    \/ /\ call.op = "run_dynamic_query"
       /\ (call.args.user_name = None \/ call.args.target_job = <<>>
             \/ call.args.company_name = <<>>)
    \/ /\ call.op = "run_skill_forecast"
       /\ (call.args.company_name = <<>> \/ call.args.target_job = <<>>)
    \/ /\ call.op \in {"find_eligible_jobs_for_user", "get_skills_for_user"}
       /\ call.args.user_name = None
    \/ /\ call.op = "find_eligible_candidates_for_job"
       /\ call.args.target_job = <<>>
    \/ /\ call.op = "get_skills_for_job"
       /\ (call.args.target_job = <<>> \/ call.args.company_name = <<>>)
    \/ /\ call.op = "find_jobs_by_criteria"
       /\ call.args.company_name = <<>> /\ call.args.target_job = <<>>
       /\ call.args.location = <<>> /\ call.args.skills = <<>>
    \/ /\ call.op = "run_analytics_query"
       /\ AnalyticsBranch(call.args) = "find_jobs_by_criteria"
       /\ call.args.company_name = <<>> /\ call.args.target_skill = <<>>

\* the messages that ask for the missing input
Instructions == {"Need name, job, and company.", "Need company and job title.",
                 "Please specify your name.", "Please specify a name.",
                 "Please specify a job title.", "Specify job and company.",
                 "Please specify criteria."}

C26_NoRawErrorText ==
    lastCall.op # "none" => ~lastCall.value.raw

\* generate_content was called and raised
OracleFailed == lastCall.op # "none" /\ lastCall.oracle = 1 /\ ~lastCall.llm

\* C27: when the oracle fails in a narrative step only that step degrades:
\* find_eligible_candidates_for_job still returns the candidate table with the
\* 'Found N candidates.' message, the learning path is replaced by its error
\* message and the forecast by its error message; the handler returns.
C27_OracleFailureDegrades ==
    OracleFailed =>
       /\ lastCall.op \in {"find_eligible_candidates_for_job", "run_dynamic_query",
                           "run_skill_forecast"}
       /\ lastCall.op = "find_eligible_candidates_for_job" =>
             /\ lastCall.value.msg = "Found N candidates."
             /\ lastCall.value.table # <<>>
             /\ \E real_job_title \in {lastCall.args.target_job}
                                       \cup {Jobs[j].JobTitle : j \in JobIds} :
                   lastCall.value.table =
                      find_matching_candidates(get_all_skills_for_job_title(real_job_title),
                                               CandidateSearchThreshold, TRUE)
       /\ lastCall.op = "run_dynamic_query" =>
             lastCall.value = Message("Error generating path.")
       /\ lastCall.op = "run_skill_forecast" =>
             /\ lastCall.value.msg = "Error: {e}"
             /\ lastCall.value.table = <<>>

\* the candidate search found John Smith for the Cloud Engineer posting and
\* the summary could not be generated
C27_Witness ==
    /\ OracleFailed
    /\ lastCall.op = "find_eligible_candidates_for_job"
    /\ lastCall.args.target_job = CloudEngineer
    /\ Len(lastCall.value.table) = 1
    /\ lastCall.value.table[1].FullName = "John Smith"

\* the required skills of the postings with a title like job_title, and those
\* of them some posting marks Mandatory
RequiredSkills(job_title) ==
    {s[1] : s \in Range(get_target_job_skills(job_title, AnyCompany, [mysql |-> TRUE]))}

MandatorySkills(job_title) ==
    {s[1] : s \in {r \in Range(get_target_job_skills(job_title, AnyCompany, [mysql |-> TRUE])) :
                      r[2] = "Mandatory"}}

\* C28: the target skill list of a forecast is the Mandatory subset of the
\* title's required skills when that subset is non-empty, and the full
\* required-skill set only when no posting marks a skill Mandatory.
C28_MandatoryPreferred ==
    (lastCall.op = "run_skill_forecast" /\ lastCall.value.msg = "forecast")
      => lastCall.value.detail[1] =
            IF MandatorySkills(lastCall.args.target_job) # {}
            THEN MandatorySkills(lastCall.args.target_job)
            ELSE RequiredSkills(lastCall.args.target_job)

\* the CareerPath call came to the gap analysis, and the gaps it found
GapAnalysed ==
    /\ lastCall.op = "run_dynamic_query"
    /\ lastCall.failed = {}
    /\ lastCall.value.msg \notin {"Need name, job, and company.", "Profile not found.",
                                  "No data for job at company."}

CareerGaps ==
    SkillGap(get_user_skills(lastCall.args.profile_id),
             get_target_job_skills(lastCall.args.target_job, lastCall.args.company_name,
                                   [mysql |-> TRUE]))

\* C29: in the CareerPath handler, when the mandatory gap and the preferred gap
\* are both empty the congratulatory message is returned and the oracle is not
\* called; the oracle is called only when a gap is non-empty, and at most once.
C29_NoOracleWithoutGap ==
    lastCall.op = "run_dynamic_query" =>
       /\ lastCall.oracle \in {0, 1}
       /\ lastCall.oracle = 1 => (GapAnalysed /\ CareerGaps # <<<<>>, <<>>>>)
       /\ (GapAnalysed /\ CareerGaps = <<<<>>, <<>>>>) =>
             /\ lastCall.value = Message("You have all required skills!")
             /\ lastCall.oracle = 0

\* Asha Rao, who holds Python and SQL, asked for the Engineer posting at SAP
C29_Witness ==
    /\ GapAnalysed
    /\ lastCall.args.profile_id = 1
    /\ lastCall.args.target_job = Engineer
    /\ lastCall.args.company_name = SAP
    /\ CareerGaps = <<<<>>, <<>>>>
    /\ lastCall.value.msg = "You have all required skills!"
    /\ lastCall.oracle = 0

=============================================================================
